---------------------------- MODULE Spec2Model ----------------------------
(***************************************************************************)
(* A model of the virt-kernel execution substrate:                         *)
(*   - the buddy frame allocator (src/src/pm.rs),                          *)
(*   - fork / copy-on-write / task teardown (src/src/sched.rs),            *)
(*   - the task table, scheduler and sleep/wakeup (src/src/sched.rs),      *)
(*   - the 9P virtqueue and its interrupt handler (src/src/virtio.rs,      *)
(*     src/src/p9.rs),                                                     *)
(*   - the file layer: reference counts, fds, 9P fids (src/src/fs.rs),     *)
(*   - the four-level page tables on 64-bit entries (src/src/vm.rs),       *)
(*   - the regions of a task and the data-abort handler (src/src/sched.rs),*)
(*   - ppoll and the timer tick (src/src/fs.rs, src/src/timer.rs),         *)
(*   - sleep, sleep_if, wakeup, wait queues, the tick (src/src/sched.rs).  *)
(* Addresses are counted in 4 KiB frames relative to Allocator::offt.      *)
(***************************************************************************)
EXTENDS Integers, Sequences, FiniteSets, TLC

VARIABLES
    ALLOC,      \* pm.rs static ALLOC: [pages, free_lists, panic]
    kend,       \* first frame past the kernel image (k_end / 4096)
    peak,       \* largest number of live blocks since the allocator was last idle
    TASKS,      \* sched.rs static TASKS, the memory-related fields of each Task
    mem,        \* contents of each frame (one value per frame)
    panicked,   \* the kernel hit panic!/unwrap()/unreachable!()
    last,       \* the operation performed by the latest step
    cowlog,     \* frames that took the Alloc path of the fault handler, with their sharers
    chan,       \* Task::chan of each task (0 for None)
    locked,     \* Task::lock of each task: Lock::locked
    WAIT,       \* sched.rs static WAIT: Lock::locked
    cpu,        \* the one Cpu: task_idx, the code it executes, the scheduler's loop index
    ctx,        \* Task::ctx of each task: where the task resumes after switch
    waiting,    \* channel of a sleep whose lock is released and that no wakeup answered yet
    seen,       \* the state changes of task slots that occurred so far
    P9,         \* p9.rs static P9L: the virtqueue q
    reqs,       \* the requests published so far: owner, head, channel, device reply
    irqlog,     \* the used-ring entries irq_handle drained: head, channel passed, tasks woken
    FS,         \* fs.rs static FS: kind, rc and 9P fid of each File of the pool
    files,      \* Task::files of each task: the pool slot each fd refers to
    fid_bs,     \* p9.rs P9::fid_bs: the fids in use
    fop,        \* the file system call each task is in, and what it has done so far
    fcalls,     \* the number of file system calls entered since boot
    VMS,        \* the page-table frames: contents, next frame pm::alloc hands out, panic
    vmlast,     \* the latest page-table operation: arguments, Result, leaf before and after
    vmaps,      \* the leaf mappings established and not yet unmapped: root, v, p
    vmcalls,    \* the number of page-table operations performed
    DT,         \* one task seen by the data-abort handler: its regions and the leaf permissions of its pages
    dlast,      \* the latest step of that task: the fault address, the region selected, the outcome
    TICK,       \* timer.rs static TICKLOCK: the tick count and the number of entries of its wait queue
    PO,         \* the task that calls ppoll: where it is, the locals of ppoll, the console wait queue
    SL,         \* tasks that sleep and are woken on the one CPU: states, locks, wait queues, the CPU
    IC,         \* the interrupt state of the CPU: PSTATE.I, Cpu::int_enable, Cpu::int_disables, the locks held
    FK,         \* tasks that fork, exit and wait: states, pids, parents, trap frames, WAIT, the CPU
    VD,         \* the virtio devices during bring-up: their registers, the STATUS writes, the driver's position
    VQ,         \* the 9P virtqueue under many tasks: the queue, each task's state, the chains
    RG,         \* one task's mmap and brk regions and the frames left in RAM, in pages
    NP          \* one task's files over 9P: the file pool, the fds, P9::fid_bs, the messages of the latest system call

varsPm == <<ALLOC, kend, peak>>
varsCow == <<TASKS, mem, panicked, last, cowlog>>
varsSched == <<chan, locked, WAIT, cpu, ctx, waiting, seen>>
varsP9 == <<P9, reqs, irqlog>>
varsFs == <<FS, files, fid_bs, fop, fcalls>>
varsVm == <<VMS, vmlast, vmaps, vmcalls>>
varsDabt == <<DT, dlast>>
varsPoll == <<TICK, PO>>
varsLate == <<RG, VQ>>
varsKern == <<SL, IC, FK, NP, VD, varsLate>>
varsRest == <<varsVm, varsDabt, varsPoll, varsKern>>
varsMore == <<varsFs, varsRest>>
vars == <<varsPm, varsCow, varsSched, varsP9, varsMore>>

----------------------------------------------------------------------------
(* Bounds of the model *)

\* Allocator::ORDER of the model: a maximal block is 2^MaxOrder frames
\* (the source uses 8, i.e. 256 frames = 1 MiB).
MaxOrder == 2

\* Largest number of extra references (dup without the matching free) outstanding.
MaxDup == 2

----------------------------------------------------------------------------
(* Arithmetic helpers *)

RECURSIVE Pow2(_)
Pow2(n) == IF n = 0 THEN 1 ELSE 2 * Pow2(n - 1)

\* usize::next_power_of_two().ilog2() of a page count
RECURSIVE CeilLog2From(_, _)
CeilLog2From(n, k) == IF Pow2(k) >= n THEN k ELSE CeilLog2From(n, k + 1)

\* RAM: twelve maximal blocks, the kernel image at the bottom
NFrames == 12 * Pow2(MaxOrder)
Frames == 0 .. (NFrames - 1)
Orders == 0 .. MaxOrder

----------------------------------------------------------------------------
(* pm.rs: Page, FL, Allocator *)

\* Page::new(i, 8, 1): every frame starts at the highest order, ref_cnt 1, Flags::None
PageNew(i) == [ord |-> MaxOrder, ref_cnt |-> 1, flags |-> "None"]

\* Page::len() / 4096
PageLen(ord) == Pow2(MaxOrder - ord)

\* Allocator::get_ord, n in frames
get_ord(n) == MaxOrder - CeilLog2From(n, 0)

\* Allocator::get_buddy: addr ^ (4096 << (ORDER - ord)), on frame numbers
get_buddy(idx, ord) ==
    LET sz == Pow2(MaxOrder - ord)
    IN  IF (idx \div sz) % 2 = 0 THEN idx + sz ELSE idx - sz

\* FL::add: push at the head of the list
FLadd(a, ord, idx) ==
    [a EXCEPT !.free_lists[ord] = <<idx>> \o @]

\* FL::remove: unlink the node; unreachable!() when it is not on the list
FLremove(a, ord, idx) ==
    IF \E k \in 1 .. Len(a.free_lists[ord]) : a.free_lists[ord][k] = idx
    THEN [a EXCEPT !.free_lists[ord] = SelectSeq(@, LAMBDA x : x # idx)]
    ELSE [a EXCEPT !.panic = TRUE]

\* split that leaves the parent block on its list
split_keep(a, idx, order) ==
    LET len  == PageLen(order) \div 2
        a2   == [a EXCEPT !.pages[idx].ord = order + 1,
                          !.pages[idx + len].ord = order + 1]
    IN  FLadd(FLadd(a2, order + 1, idx + len), order + 1, idx)

\* Page::split: replace a free block of `order` by its two halves at order + 1
split(a, idx, order) ==
    LET len  == PageLen(order) \div 2
        p1   == idx
        p2   == idx + len
        a1   == FLremove(a, order, idx)
        a2   == [a1 EXCEPT !.pages[p1].ord = order + 1,
                           !.pages[p2].ord = order + 1]
    IN  FLadd(FLadd(a2, order + 1, p2), order + 1, p1)

\* Allocator::split_to: split the head of list cur_ord until a block of t_ord exists
RECURSIVE split_to(_, _, _, _)
split_to(a, idx, cur_ord, t_ord) ==
    IF t_ord > cur_ord
    THEN LET a1 == split(a, idx, cur_ord)
         IN  split_to(a1, Head(a1.free_lists[cur_ord + 1]), cur_ord + 1, t_ord)
    ELSE a

\* the first non-empty list at an order below ord, searching downwards from ord - 1
RECURSIVE FirstLower(_, _)
FirstLower(a, i) ==
    IF a.free_lists[i] # <<>> THEN i
    ELSE IF i = 0 THEN -1
    ELSE FirstLower(a, i - 1)

\* rm_first + ref_cnt = 1 (both return paths of _alloc)
TakeFirst(a, ord) ==
    LET p == Head(a.free_lists[ord])
    IN  [ok |-> TRUE, idx |-> p,
         a  |-> [a EXCEPT !.free_lists[ord] = Tail(@), !.pages[p].ref_cnt = 1]]

\* Allocator::_alloc, n in frames
alloc_inner(a, n) ==
    IF n > Pow2(MaxOrder) \/ n = 0
    THEN [ok |-> FALSE, idx |-> 0, a |-> a]
    ELSE LET ord == get_ord(n)
         IN  IF a.free_lists[ord] # <<>> THEN TakeFirst(a, ord)
             ELSE IF ord = 0 THEN [ok |-> FALSE, idx |-> 0, a |-> a]
             ELSE LET i  == FirstLower(a, ord - 1)
                      a1 == IF i >= 0
                            THEN split_to(a, Head(a.free_lists[i]), i, ord)
                            ELSE a
                  IN  IF a1.free_lists[ord] # <<>> THEN TakeFirst(a1, ord)
                      ELSE [ok |-> FALSE, idx |-> 0, a |-> a1]

\* Page::mark_mids
mark_mids(pages, idx) ==
    LET n == PageLen(pages[idx].ord)
    IN  [i \in Frames |->
            IF i > idx /\ i < idx + n
            THEN [pages[i] EXCEPT !.ref_cnt = i - idx, !.flags = "Mid"]
            ELSE pages[i]]

\* Page::unmark_mids
unmark_mids(pages, idx) ==
    LET n == PageLen(pages[idx].ord)
    IN  [i \in Frames |->
            IF i > idx /\ i < idx + n
            THEN [pages[i] EXCEPT !.ref_cnt = 0, !.flags = "None"]
            ELSE pages[i]]

\* Allocator::alloc
alloc(a, n) ==
    LET r == alloc_inner(a, n)
    IN  IF r.ok
        THEN [r EXCEPT !.a.pages =
                 [mark_mids(r.a.pages, r.idx) EXCEPT ![r.idx].flags = "Used"]]
        ELSE r

\* join that never merges with the buddy
join_nomerge(a, idx) == FLadd(a, a.pages[idx].ord, idx)

\* Page::join: coalesce with the buddy while it is idle and of the same order
RECURSIVE join(_, _)
join(a, idx) ==
    LET ord == a.pages[idx].ord
    IN  IF ord = 0 THEN FLadd(a, ord, idx)
        ELSE LET b == get_buddy(idx, ord)
             IN  IF a.pages[b].ord # ord \/ a.pages[b].ref_cnt # 0
                 THEN FLadd(a, ord, idx)
                 ELSE LET a1   == FLremove(a, ord, b)
                          merg == IF idx > b THEN b ELSE idx
                      IN  IF a1.panic THEN a1
                          ELSE join([a1 EXCEPT !.pages[merg].ord = ord - 1], merg)

\* a free that leaves the interior frames as they are
free_keep_mids(a, idx) ==
    LET page == a.pages[idx]
    IN  IF page.flags = "Mid" THEN a
        ELSE IF page.ref_cnt = 0 THEN [a EXCEPT !.panic = TRUE]
        ELSE IF page.ref_cnt - 1 > 0 THEN [a EXCEPT !.pages[idx].ref_cnt = @ - 1]
        ELSE join([a EXCEPT !.pages[idx].ref_cnt = 0, !.pages[idx].flags = "None"], idx)

\* Allocator::free
free(a, idx) ==
    LET page == a.pages[idx]
    IN  IF page.flags = "Mid" THEN a
        ELSE IF page.ref_cnt = 0 THEN [a EXCEPT !.panic = TRUE]
        ELSE IF page.ref_cnt - 1 > 0 THEN [a EXCEPT !.pages[idx].ref_cnt = @ - 1]
        ELSE LET p1 == [a.pages EXCEPT ![idx].ref_cnt = 0]
                 p2 == [unmark_mids(p1, idx) EXCEPT ![idx].flags = "None"]
             IN  join([a EXCEPT !.pages = p2], idx)

\* Page::dup_for_cow on the looked-up head
dup_for_cow(a, idx) ==
    IF a.pages[idx].ref_cnt = 0 THEN [a EXCEPT !.panic = TRUE]
    ELSE [a EXCEPT !.pages[idx].ref_cnt = @ + 1, !.pages[idx].flags = "Cow"]

\* the loop of Allocator::init_free_list over the frames lo .. hi - 1, in
\* ascending order; the range is halved so that the evaluation stays shallow
RECURSIVE free_frames(_, _, _)
free_frames(a, lo, hi) ==
    IF a.panic \/ lo >= hi THEN a
    ELSE IF hi - lo = 1 THEN free(a, lo)
    ELSE free_frames(free_frames(a, lo, (lo + hi) \div 2), (lo + hi) \div 2, hi)

\* Allocator::init_free_list: free every frame from k_end to the end of RAM
init_free_list(a, i) == free_frames(a, i, NFrames)

\* Allocator::init
AllocatorInit(k_end) ==
    init_free_list([pages      |-> [i \in Frames |-> PageNew(i)],
                    free_lists |-> [o \in Orders |-> <<>>],
                    panic      |-> FALSE], k_end)

----------------------------------------------------------------------------
(* sched.rs / vm.rs: tasks, regions, per-task page tables *)

\* Number of slots of the task table (NTASKS in the source is 32).
NTasks == 3

\* Largest number of pages a task obtains from brk and mmap together.
MaxPages == 1

\* Values a user store writes into a page (0 is the zero fill).
MaxVal == 1

Tasks == 0 .. (NTasks - 1)
Vals == 0 .. MaxVal

\* Option::None of Task::user_pt / user_sp / a page-table entry equal to 0
NoFrame == -1
\* Option::None of Task::parent
NoTask == -1

\* the regions of a task: program (one PT_LOAD segment), mmap, brk, user stack
CowRegions == {"program", "mmap", "brk"}
Regions == CowRegions \cup {"spel0"}

\* Region::blksize() / 4096: granule 1 for spel0, 0 for the others
BlkPages(r) == IF r = "spel0" THEN 2 ELSE 1

\* page addresses of the model: <<region, page index in the region>>
VAddrs == {v \in Regions \X (0 .. MaxPages) :
              IF v[1] = "spel0" THEN v[2] < 2
              ELSE IF v[1] = "program" THEN v[2] < 1
              ELSE v[2] < MaxPages}

\* the page-table frames below the root a region's pages are reached through:
\* one L1 table for the whole address space, one L2 and one L3 table per region
\* (program at 4 MiB, mmap at 1 GiB, brk at 2 GiB, spel0 at 8 GiB)
TableKeys == {<<"l1", "all">>} \cup ({"l2", "l3"} \X Regions)

\* a zero page-table entry
NoPte == [p |-> NoFrame, perms |-> "none"]

\* Task::zeroed()
TaskZeroed ==
    [state    |-> "Free",
     parent   |-> NoTask,
     user_pt  |-> NoFrame,
     user_sp  |-> NoFrame,
     sp_el1   |-> NoFrame,
     tables   |-> [k \in TableKeys |-> NoFrame],
     pt       |-> [v \in VAddrs |-> NoPte],
     program  |-> 0,
     mmap_len |-> 0,
     brk_len  |-> 0]

\* Region::len / 4096 of region r of task record tk
RegionLen(tk, r) ==
    CASE r = "program" -> tk.program
      [] r = "mmap"    -> tk.mmap_len
      [] r = "brk"     -> tk.brk_len
      [] r = "spel0"   -> 2

\* the kernel state threaded through the operations below; ret holds the frame
\* the latest pm::alloc returned, res the latest Result of map / map_ovwr
Machine ==
    [a |-> ALLOC, tasks |-> TASKS, mem |-> mem, panic |-> panicked,
     ret |-> NoFrame, res |-> "Ok"]

Panic(m) == [m EXCEPT !.panic = TRUE, !.res = "Panic"]

\* the Result of pm::alloc, unwrapped
AllocDone(m, r) ==
    IF r.ok THEN [m EXCEPT !.a = r.a, !.ret = r.idx]
    ELSE Panic([m EXCEPT !.a = r.a])

\* pm::alloc(n).unwrap()
AllocUnwrap(m, n) == IF m.panic THEN m ELSE AllocDone(m, alloc(m.a, n))

\* the allocator after pm::free; a block that becomes free loses its contents
\* (every allocation path rewrites the block before it is read)
FreeDone(m, idx, a1) ==
    [m EXCEPT !.a = a1, !.panic = a1.panic,
              !.mem = IF a1.pages[idx].ref_cnt = 0 /\ m.a.pages[idx].flags # "Mid"
                      THEN [f \in Frames |->
                               IF f >= idx /\ f < idx + PageLen(m.a.pages[idx].ord)
                               THEN 0 ELSE m.mem[f]]
                      ELSE m.mem]

\* pm::free(addr, len)
FreeFrame(m, idx) == IF m.panic THEN m ELSE FreeDone(m, idx, free(m.a, idx))

\* store the frame just allocated as the table `key` of task t
SetTable(m, t, key) ==
    IF m.panic THEN m ELSE [m EXCEPT !.tasks[t].tables[key] = m.ret]

\* vm::pt_alloc_if_0_2: allocate the next-level table when the entry is 0
pt_alloc_if_0_2(m, t, key) ==
    IF m.panic \/ m.tasks[t].tables[key] # NoFrame THEN m
    ELSE SetTable(AllocUnwrap(m, 1), t, key)

\* vm::map_v2p_4k_inner once the walk has reached the L3 table
WriteLeaf(m, t, v, p, perms, overw) ==
    IF m.panic THEN m
    ELSE IF m.tasks[t].pt[v] # NoPte /\ ~overw THEN [m EXCEPT !.res = "Exists"]
    ELSE [m EXCEPT !.tasks[t].pt[v] = [p |-> p, perms |-> perms],
                   !.res = IF m.tasks[t].pt[v] # NoPte THEN "Exists" ELSE "Ok"]

\* vm::map_v2p_4k_inner
map_v2p_4k_inner(m, t, v, p, perms, overw) ==
    WriteLeaf(pt_alloc_if_0_2(pt_alloc_if_0_2(pt_alloc_if_0_2(m, t, <<"l1", "all">>),
                                              t, <<"l2", v[1]>>),
                              t, <<"l3", v[1]>>),
              t, v, p, perms, overw)

\* sched.rs map: n pages from v / p on, stopping at the first error
RECURSIVE map(_, _, _, _, _, _)
RECURSIVE MapNext(_, _, _, _, _, _)
map(m, t, v, p, n, perms) ==
    IF n = 0 THEN [m EXCEPT !.res = "Ok"]
    ELSE MapNext(map_v2p_4k_inner(m, t, v, p, perms, FALSE), t, v, p, n, perms)

MapNext(m, t, v, p, n, perms) ==
    IF m.res # "Ok" THEN m
    ELSE map(m, t, <<v[1], v[2] + 1>>, p + 1, n - 1, perms)

\* sched.rs map_ovwr: Err(Exists) continues, anything else (Ok included) returns
RECURSIVE map_ovwr(_, _, _, _, _, _)
RECURSIVE MapOvwrNext(_, _, _, _, _, _)
map_ovwr(m, t, v, p, n, perms) ==
    IF n = 0 THEN [m EXCEPT !.res = "Ok"]
    ELSE MapOvwrNext(map_v2p_4k_inner(m, t, v, p, perms, TRUE), t, v, p, n, perms)

MapOvwrNext(m, t, v, p, n, perms) ==
    IF m.res # "Exists" THEN m
    ELSE map_ovwr(m, t, <<v[1], v[2] + 1>>, p + 1, n - 1, perms)

\* x.unwrap() of the Result of map / map_ovwr
Unwrap(m) == IF m.res = "Ok" THEN m ELSE Panic(m)

\* vm::walk_to_l3 succeeds: no table entry on the way is 0
walk_to_l3(tk, v) ==
    /\ tk.tables[<<"l1", "all">>] # NoFrame
    /\ tk.tables[<<"l2", v[1]>>] # NoFrame
    /\ tk.tables[<<"l3", v[1]>>] # NoFrame

\* sched.rs unmap(..).unwrap(): zero n leaf entries
RECURSIVE unmap(_, _, _, _)
unmap(m, t, v, n) ==
    IF n = 0 \/ m.panic THEN m
    ELSE IF ~walk_to_l3(m.tasks[t], v) THEN Panic(m)
    ELSE unmap([m EXCEPT !.tasks[t].pt[v] = NoPte], t, <<v[1], v[2] + 1>>, n - 1)

\* sched.rs copy_pm: copy n frames
RECURSIVE copy_pm(_, _, _, _)
copy_pm(m, from_pm, to_pm, n) ==
    IF n = 0 \/ m.panic THEN m
    ELSE copy_pm([m EXCEPT !.mem[to_pm + n - 1] = m.mem[from_pm + n - 1]],
                 from_pm, to_pm, n - 1)

\* free_region(region, l0_pt, true): unmap the blocks without freeing them
RECURSIVE free_region_skip_from(_, _, _, _, _)
free_region_skip_from(m, t, r, i, n) ==
    IF i >= n \/ m.panic THEN m
    ELSE free_region_skip_from(unmap(m, t, <<r, i * BlkPages(r)>>, BlkPages(r)),
                               t, r, i + 1, n)

free_region_skip(m, t, r) ==
    free_region_skip_from(m, t, r, 0, RegionLen(m.tasks[t], r) \div BlkPages(r))

\* sched.rs free_region: blocks i .. n-1 of region r
RECURSIVE free_region_from(_, _, _, _, _)
free_region_from(m, t, r, i, n) ==
    IF i >= n \/ m.panic THEN m
    ELSE IF ~walk_to_l3(m.tasks[t], <<r, i * BlkPages(r)>>)
            \/ m.tasks[t].pt[<<r, i * BlkPages(r)>>] = NoPte THEN Panic(m)
    ELSE free_region_from(
             unmap(FreeFrame(m, m.tasks[t].pt[<<r, i * BlkPages(r)>>].p),
                   t, <<r, i * BlkPages(r)>>, BlkPages(r)),
             t, r, i + 1, n)

\* sched.rs free_region(region, l0_pt, false)
free_region(m, t, r) ==
    free_region_from(m, t, r, 0, RegionLen(m.tasks[t], r) \div BlkPages(r))

\* the order in which free_walk meets the regions (ascending virtual address)
WalkOrder == <<"program", "mmap", "brk", "spel0">>

\* vm::free_walk at level 3: free every leaf of region r that is still mapped
RECURSIVE free_leaves(_, _, _, _)
free_leaves(m, t, r, i) ==
    IF <<r, i>> \notin VAddrs \/ m.panic THEN m
    ELSE free_leaves(IF m.tasks[t].pt[<<r, i>>] # NoPte
                     THEN FreeFrame(m, m.tasks[t].pt[<<r, i>>].p) ELSE m,
                     t, r, i + 1)

\* vm::free_walk below one L2 entry: the leaves, then the L3 table
free_walk_l3(m, t, r) ==
    IF m.tasks[t].tables[<<"l3", r>>] = NoFrame THEN m
    ELSE FreeFrame(free_leaves(m, t, r, 0), m.tasks[t].tables[<<"l3", r>>])

\* vm::free_walk below one L1 entry: the L3 level, then the L2 table
free_walk_region(m, t, r) ==
    IF m.tasks[t].tables[<<"l2", r>>] = NoFrame THEN m
    ELSE FreeFrame(free_walk_l3(m, t, r), m.tasks[t].tables[<<"l2", r>>])

RECURSIVE free_walk(_, _, _)
free_walk(m, t, k) ==
    IF k > Len(WalkOrder) THEN m
    ELSE free_walk(free_walk_region(m, t, WalkOrder[k]), t, k + 1)

\* vm::free_walk from the root: everything below the L1 table, then the L1 table
free_walk_l1(m, t) ==
    IF m.tasks[t].tables[<<"l1", "all">>] = NoFrame THEN m
    ELSE FreeFrame(free_walk(m, t, 1), m.tasks[t].tables[<<"l1", "all">>])

\* the tables lived in the frames just freed: the task no longer has them
DropTables(m, t) ==
    IF m.panic THEN m
    ELSE [m EXCEPT !.tasks[t].tables = [k \in TableKeys |-> NoFrame],
                   !.tasks[t].pt = [v \in VAddrs |-> NoPte]]

\* free_pt that walks the tables and keeps the root
free_pt_keep_root(m, t) == DropTables(free_walk_l1(m, t), t)

\* vm::free_pt: free_walk from the root, then the root itself
free_pt(m, t) ==
    DropTables(FreeFrame(free_walk_l1(m, t), m.tasks[t].user_pt), t)

\* Task::init_1, the root table: user_pt = pm::alloc(4096)
SetUserPt(m, t) ==
    IF m.panic THEN m ELSE [m EXCEPT !.tasks[t].user_pt = m.ret]

\* Task::init_1, the user stack: two frames mapped writable at the stack region
SetUserSp(m, t) ==
    IF m.panic THEN m
    ELSE [Unwrap(map(m, t, <<"spel0", 0>>, m.ret, 2, "PR_PW_UR_UW1"))
             EXCEPT !.tasks[t].user_sp = m.ret]

\* Task::init_1, the kernel stack
SetSpEl1(m, t) ==
    IF m.panic THEN m ELSE [m EXCEPT !.tasks[t].sp_el1 = m.ret]

\* Task::init_1: root table, user stack (mapped writable), kernel stack
init_1(m, t) ==
    SetSpEl1(AllocUnwrap(SetUserSp(AllocUnwrap(SetUserPt(AllocUnwrap(m, 1), t), 2), t),
                         2), t)

\* the slots alloc_task may take
FreeSlots(m) == {i \in Tasks : m.tasks[i].state = "Free"}

\* the slot alloc_task takes: the first Free one
FirstFree(m) == CHOOSE i \in FreeSlots(m) : \A j \in FreeSlots(m) : i <= j

\* sched.rs alloc_task on slot t = FirstFree(m)
alloc_task(m, t) ==
    init_1([m EXCEPT !.tasks[t].state = "Used"], t)

\* a region of task t emptied after free_region
ClearRegion(m, t, r) ==
    IF m.panic THEN m
    ELSE IF r = "mmap" THEN [m EXCEPT !.tasks[t].mmap_len = 0]
    ELSE IF r = "brk" THEN [m EXCEPT !.tasks[t].brk_len = 0]
    ELSE [m EXCEPT !.tasks[t].program = 0]

\* execv_inner, one PT_LOAD page: the frame just allocated is mapped PR_PW,
\* filled from the file (zero here), recorded as a region, then map_chg_perms
LoadSegment(m, t) ==
    IF m.panic THEN m
    ELSE [Unwrap(map(m, t, <<"program", 0>>, m.ret, 1, "PR_PW"))
             EXCEPT !.mem[m.ret] = 0,
                    !.tasks[t].program = 1,
                    !.tasks[t].pt[<<"program", 0>>].perms = "PR_PW_UR_UW1"]

\* execv_inner: the user stack is filled with 0
ClearStack(m, t) ==
    IF m.panic THEN m
    ELSE [m EXCEPT !.mem[m.tasks[t].user_sp] = 0,
                   !.mem[m.tasks[t].user_sp + 1] = 0]

\* sched.rs execv_inner for an image with one writable PT_LOAD segment of one
\* page: drop mmap, brk and program, load the segment, clear the user stack
execv_inner(m, t) ==
    ClearStack(
        LoadSegment(
            AllocUnwrap(
                ClearRegion(
                    free_region(
                        ClearRegion(
                            free_region(
                                ClearRegion(free_region(m, t, "mmap"), t, "mmap"),
                                t, "brk"),
                            t, "brk"),
                        t, "program"),
                    t, "program"),
                1),
            t),
        t)

\* the allocator after pm::dup
DupDone(m, a1) == [m EXCEPT !.a = a1, !.panic = a1.panic]

\* pm::dup(addr, len).unwrap(): increment the head refcount and flag it Cow
dup(m, idx) == IF m.panic THEN m ELSE DupDone(m, dup_for_cow(m.a, idx))

\* clone_region, one block: the closure keeps the frame and rewrites the
\* parent's permissions, pm::dup, then map(to_pt, ..).unwrap()
clone_block(m, from, to, v, pm) ==
    Unwrap(map(dup([m EXCEPT !.tasks[from].pt[v].perms = "PR_UR"], pm),
               to, v, pm, 1, "PR_UR"))

\* sched.rs clone_region, blocks i .. n-1 of a PF_R | PF_W region with granule 0
RECURSIVE clone_region_from(_, _, _, _, _, _)
clone_region_from(m, from, to, r, i, n) ==
    IF i >= n \/ m.panic THEN m
    ELSE IF ~walk_to_l3(m.tasks[from], <<r, i>>)
            \/ m.tasks[from].pt[<<r, i>>].p = NoFrame THEN Panic(m)
    ELSE clone_region_from(
             clone_block(m, from, to, <<r, i>>, m.tasks[from].pt[<<r, i>>].p),
             from, to, r, i + 1, n)

\* clone_region that shares nothing with the child
clone_region_none(m, from, to, r) == m

\* sched.rs clone_region
clone_region(m, from, to, r) ==
    clone_region_from(m, from, to, r, 0, RegionLen(m.tasks[from], r))

\* sched.rs fork, the tail: the region lists of the child, the eager copy of
\* the user stack, state Ready and the parent link
fork_finish(m, t, nt) ==
    IF m.panic THEN m
    ELSE [copy_pm(m, m.tasks[t].user_sp, m.tasks[nt].user_sp, 2)
             EXCEPT !.tasks[nt].program = m.tasks[t].program,
                    !.tasks[nt].brk_len = m.tasks[t].brk_len,
                    !.tasks[nt].mmap_len = m.tasks[t].mmap_len,
                    !.tasks[nt].state = "Ready",
                    !.tasks[nt].parent = t]

\* sched.rs fork, the child being slot nt = FirstFree(m)
fork(m, t, nt) ==
    fork_finish(
        clone_region(
            clone_region(clone_region(alloc_task(m, nt), t, nt, "program"),
                         t, nt, "brk"),
            t, nt, "mmap"),
        t, nt)

\* pm::cow_action(addr, len, f): resolve the head; f is called with Remap when
\* the refcount is 1 and with Alloc otherwise
cow_action(m, idx) ==
    IF m.a.pages[idx].ref_cnt = 1 THEN "Remap" ELSE "Alloc"

\* pm::cow_action after f returned on the Alloc path: the original frame's
\* refcount is decremented
cow_release(m, idx) ==
    IF m.panic THEN m ELSE [m EXCEPT !.a.pages[idx].ref_cnt = @ - 1]

\* sched.rs find_region: brk, then mmap (which hands back task.brk), then program
find_region(tk, v) ==
    IF v[1] = "brk" /\ v[2] < tk.brk_len THEN "brk"
    ELSE IF v[1] = "mmap" /\ v[2] < tk.mmap_len THEN "brk"
    ELSE IF v[1] = "program" /\ v[2] < tk.program THEN "program"
    ELSE "None"

\* the Alloc arm without the copy: the new frame is mapped as it is
alloc_arm_nocopy(m, t, v, pm) ==
    IF m.panic THEN m
    ELSE Unwrap(map_ovwr(m, t, v, m.ret, 1, "PR_PW_UR_UW1"))

\* the Alloc arm of the closure in dabt_handler once al.alloc returned: copy
\* the old frame into the new one, map the new frame writable
alloc_arm(m, t, v, pm) ==
    IF m.panic THEN m
    ELSE Unwrap(map_ovwr(copy_pm(m, pm, m.ret, 1), t, v, m.ret, 1, "PR_PW_UR_UW1"))

\* the Remap arm of the closure in dabt_handler: same frame, writable
remap_arm(m, t, v, pm) ==
    Unwrap(map_ovwr(m, t, v, pm, 1, "PR_PW_UR_UW1"))

\* dabt_handler once the faulting page resolved to frame pm
cow_fault(m, t, v, pm) ==
    IF cow_action(m, pm) = "Remap" THEN remap_arm(m, t, v, pm)
    ELSE cow_release(alloc_arm(AllocUnwrap(m, 1), t, v, pm), pm)

\* sched.rs dabt_handler for a fault of task t at page v
dabt_handler(m, t, v) ==
    IF find_region(m.tasks[t], v) = "None" THEN Panic(m)
    ELSE IF ~walk_to_l3(m.tasks[t], v) \/ m.tasks[t].pt[v].p = NoFrame THEN Panic(m)
    ELSE cow_fault(m, t, v, m.tasks[t].pt[v].p)

\* free_task once the regions are freed: the lists are emptied, user_sp = None
DropRegions(m, t) ==
    IF m.panic THEN m
    ELSE [m EXCEPT !.tasks[t].user_sp = NoFrame,
                   !.tasks[t].program = 0,
                   !.tasks[t].brk_len = 0,
                   !.tasks[t].mmap_len = 0]

\* free_task, the last step: the task becomes a Zombie
SetZombie(m, t) ==
    IF m.panic THEN m ELSE [m EXCEPT !.tasks[t].state = "Zombie"]

\* sched.rs free_task, the memory part, and the Zombie mark
free_task(m, t) ==
    SetZombie(
        free_pt(
            DropRegions(
                free_region(
                    free_region(
                        free_region(free_region(m, t, "program"), t, "spel0"),
                        t, "brk"),
                    t, "mmap"),
                t),
            t),
        t)

\* sched.rs exit: pid 0 must not exit
exit(m, t) == IF t = 0 THEN Panic(m) ELSE free_task(m, t)

\* brk / mmap once the frame is allocated: map it at the end of region r with
\* perms, zero it, extend the region
GrowRegion(m, t, r, perms) ==
    IF m.panic THEN m
    ELSE IF r = "brk"
    THEN [Unwrap(map(m, t, <<r, m.tasks[t].brk_len>>, m.ret, 1, perms))
             EXCEPT !.tasks[t].brk_len = @ + 1, !.mem[m.ret] = 0]
    ELSE [Unwrap(map(m, t, <<r, m.tasks[t].mmap_len>>, m.ret, 1, perms))
             EXCEPT !.tasks[t].mmap_len = @ + 1, !.mem[m.ret] = 0]

\* sched.rs brk growing the region by one page, zero filled
brk(m, t) == GrowRegion(AllocUnwrap(m, 1), t, "brk", "PR_PW_UR_UW1")

\* sched.rs mmap of one anonymous page with prot 1 (read) or 3 (read/write)
mmap(m, t, prot) ==
    GrowRegion(AllocUnwrap(m, 1), t, "mmap",
               IF prot = 1 THEN "PR_UR" ELSE "PR_PW_UR_UW1")

----------------------------------------------------------------------------
(* The allocator driven by its three entry points *)

\* heads of blocks that are allocated (Used or Cow)
LiveHeads(a) == {i \in Frames : a.pages[i].flags \in {"Used", "Cow"}}

\* references beyond the first one, summed over the allocated blocks
RECURSIVE ExtraRefsUpTo(_, _)
ExtraRefsUpTo(a, i) ==
    IF i < 0 THEN 0
    ELSE ExtraRefsUpTo(a, i - 1)
         + (IF a.pages[i].flags \in {"Used", "Cow"} THEN a.pages[i].ref_cnt - 1 ELSE 0)

ExtraRefs(a) == ExtraRefsUpTo(a, NFrames - 1)

\* the last maximal block of RAM
LastBlock == NFrames - Pow2(MaxOrder)

\* Option<u64>::None of Task::chan, and desc_data of a chain nobody sleeps on
NoChan == 0

\* sched.rs static CPUS before the scheduler runs
CpuNew == [task_idx |-> NoTask, pc |-> "main", i |-> 0, nt |-> NoTask]

\* the scheduler state while only memory is exercised
SchedIdle ==
    /\ chan = [t \in Tasks |-> NoChan]
    /\ locked = [t \in Tasks |-> FALSE]
    /\ WAIT = FALSE
    /\ cpu = CpuNew
    /\ ctx = [t \in Tasks |-> "none"]
    /\ waiting = [t \in Tasks |-> NoChan]
    /\ seen = {}

\* p9.rs QSIZE: the length of the 9P virtqueue
QSIZE == 8

\* descriptor indices, also the slots of the avail and used rings
Descs == 0 .. QSIZE - 1

\* virtio.rs Q::new; cleared counts, per descriptor, the BitSet128::clr calls
\* since the descriptor was last allocated; panic: assert!(i < N) failed
QNew ==
    [desc      |-> [d \in Descs |-> [flags |-> {}, next |-> 0]],
     avail     |-> [idx |-> 0, ring |-> [i \in Descs |-> 0]],
     used      |-> [idx |-> 0, ring |-> [i \in Descs |-> 0]],
     desc_bs   |-> {},
     desc_data |-> [d \in Descs |-> NoChan],
     used_pos  |-> 0,
     cleared   |-> [d \in Descs |-> 0],
     panic     |-> FALSE]

\* the 9P transport before p9::init
P9Idle ==
    /\ P9 = QNew
    /\ reqs = <<>>
    /\ irqlog = {}

\* Number of entries of Task::files in the model (the source has 8).
MaxFds == 3

\* Number of File slots of the pool in the model (NFILES in the source is 128).
MaxFiles == 4

\* Largest number of system calls the tasks enter in a run of the file layer.
MaxFsCalls == 5

\* Number of 9P fids in the model (fid_bs has 128 bits in the source).
MaxFids == 3

Fds == 0 .. (MaxFds - 1)
Slots == 0 .. (MaxFiles - 1)
Fids == 0 .. (MaxFids - 1)

\* Option::None of an entry of Task::files
NoFile == -1

\* fs.rs File::zeroed()
FileZeroed == [kind |-> "None", rc |-> 0, fid |-> 0]

\* a task that is in no file system call
FopNone ==
    [pc |-> "user", sys |-> "none", fd |-> 0, slot |-> NoFile, fid |-> 0,
     drc |-> 0, sent |-> 0]

\* the file layer before any task exists
FsIdle ==
    /\ FS = [s \in Slots |-> FileZeroed]
    /\ files = [t \in Tasks |-> [fd \in Fds |-> NoFile]]
    /\ fid_bs = {}
    /\ fop = [t \in Tasks |-> FopNone]
    /\ fcalls = 0

----------------------------------------------------------------------------
(* vm.rs: the four-level page tables, entries as 64-bit words.  A word is    *)
(* the set of the positions of its one bits: | is \cup, & is \cap, 0 is {}.  *)

\* Number of 4 KiB frames pm::alloc can hand out for page tables.
MaxPtFrames == 10

\* Largest number of page-table operations in a run.
MaxVmCalls == 3

\* vm.rs PHY_MASK = 0x0000_ffff_ffff_f000
PHY_MASK == 12 .. 47

\* the mask 0xfff of Vaddr::offt and v2p_pt
OFFT_MASK == 0 .. 11

\* vm.rs PR_PW_UR_UW1 = 1 << 54 | 0b01 << 6
PR_PW_UR_UW1 == {54, 6}

\* vm.rs PR_UR = 1 << 54 | 1 << 53 | 0b11 << 6
PR_UR == {54, 53, 7, 6}

\* 0x403: valid, page, access flag
LEAF_BITS == {0, 1, 10}

\* 3: valid, table
TABLE_BITS == {0, 1}

\* the bit positions of the four table indices of a virtual address
L0_SHIFT == 39
L1_SHIFT == 30
L2_SHIFT == 21
L3_SHIFT == 12

\* (back >> shift) & 0x1ff
Index(v, shift) == {b - shift : b \in v \cap (shift .. (shift + 8))}

\* the table indices the model uses: 0 and 1 of the 512
Idxs == SUBSET {0}

\* the frames page tables live in; frames 0 and 1 hold two roots
PtFrames == 0 .. (MaxPtFrames - 1)
Roots == {0, 1}

\* the physical address of page-table frame k: RAM starts at 0x4000_0000
FrameAddr(k) == {30} \cup {12 + i : i \in {j \in 0 .. 7 : (k \div Pow2(j)) % 2 = 1}}

\* the physical addresses of the page-table frames
PtAddrs == {FrameAddr(k) : k \in PtFrames}

\* pm < 0x4000_0000
Below1G(a) == a \cap (30 .. 63) = {}

\* zero_pt: a table of zero entries
TableZeroed == [i \in Idxs |-> {}]

\* the page-aligned virtual addresses of the model: 0 and 0x1000 share an L3
\* table, 0x20_0000 lies in the next one
VPages == {{}, {L3_SHIFT}, {L2_SHIFT}}

\* the data frames mapped: 0x8000_0000 and 0x8000_1000
DataPages == {{31}, {31, 12}}

\* byte offsets inside a page: 0 and 8
Offsets == {{}, {3}}

VmNoOp ==
    [op |-> "none", root |-> 0, v |-> {}, p |-> {}, perms |-> {}, overw |-> FALSE,
     inner |-> "Ok", res |-> "Ok", val |-> {}, old |-> {}, new |-> {}]

\* two zeroed roots, no other table
VmNew ==
    [mem |-> [a \in PtAddrs |-> TableZeroed], nxt |-> 2, panic |-> FALSE]

VmIdle ==
    /\ VMS = VmNew
    /\ vmlast = VmNoOp
    /\ vmaps = {}
    /\ vmcalls = 0

----------------------------------------------------------------------------
(* sched.rs: the regions of a task as the data-abort handler sees them.      *)
(* Addresses are page numbers (byte address / 4096).                         *)

\* Largest number of pages brk and mmap each hand out in a run.
MaxRegionPages == 2

\* elf.rs PF_X, PF_W, PF_R
PF_X == 1
PF_W == 2
PF_R == 4

\* Task::zeroed(): mmap.vaddr = GB, brk.vaddr = 2 * GB, spel0.vaddr = 8 * GB
MMAP_VADDR == 262144
BRK_VADDR == 524288
SPEL0_VADDR == 2097152

\* p_vaddr of the first PT_LOAD segment of the image (0x40_0000)
TEXT_VADDR == 1024

\* struct Region
RegionRec(ty, vaddr, len, flags, granule) ==
    [ty |-> ty, vaddr |-> vaddr, len |-> len, flags |-> flags, granule |-> granule]

\* Option::None of find_region
NoRegion == RegionRec("None", 0, 0, 0, 0)

\* the pages that can carry a leaf in the model
DabtPages ==
    (TEXT_VADDR .. (TEXT_VADDR + 2))
        \cup (MMAP_VADDR .. (MMAP_VADDR + MaxRegionPages - 1))
        \cup (BRK_VADDR .. (BRK_VADDR + MaxRegionPages - 1))
        \cup (SPEL0_VADDR .. (SPEL0_VADDR + 1))

\* the addresses FAR_EL1 takes: every such page, and pages outside all of them
FaultPages ==
    DabtPages \cup {0, TEXT_VADDR - 1, TEXT_VADDR + 3,
                    MMAP_VADDR + MaxRegionPages, BRK_VADDR + MaxRegionPages}

\* the leaf permissions execv_inner and clone_region derive from region flags;
\* "panic" stands for panic!("unhandled flags combo")
ExecPerms(flags) ==
    IF flags = PF_R + PF_X THEN "PR_UR_UX"
    ELSE IF flags = PF_R + PF_W THEN "PR_PW_UR_UW1"
    ELSE IF flags = PF_R THEN "PR_UR"
    ELSE "panic"

ClonePerms(flags) ==
    IF flags = PF_R + PF_X THEN "PR_UR_UX"
    ELSE IF flags = PF_R + PF_W THEN "PR_UR"
    ELSE IF flags = PF_R THEN "PR_UR"
    ELSE "panic"

\* the program list of an image with a text, a read-only and a data segment
ProgramNew ==
    <<RegionRec("Program", TEXT_VADDR, 1, PF_R + PF_X, 0),
      RegionRec("Program", TEXT_VADDR + 1, 1, PF_R, 0),
      RegionRec("Program", TEXT_VADDR + 2, 1, PF_R + PF_W, 0)>>

\* the task after create_task and execv_inner: the three segments and the
\* user stack mapped, mmap and brk empty
DabtTaskNew ==
    [program |-> ProgramNew,
     mmap  |-> RegionRec("Mmap", MMAP_VADDR, 0, PF_R + PF_W, 0),
     brk   |-> RegionRec("Brk", BRK_VADDR, 0, PF_R + PF_W, 0),
     spel0 |-> RegionRec("Stack", SPEL0_VADDR, 2, PF_R + PF_W, 1),
     pt    |-> [v \in DabtPages |->
                  IF v = TEXT_VADDR THEN ExecPerms(PF_R + PF_X)
                  ELSE IF v = TEXT_VADDR + 1 THEN ExecPerms(PF_R)
                  ELSE IF v = TEXT_VADDR + 2 THEN ExecPerms(PF_R + PF_W)
                  ELSE IF v >= SPEL0_VADDR THEN "PR_PW_UR_UW1"
                  ELSE "none"],
     panic |-> FALSE]

DabtNoOp ==
    [op |-> "none", v |-> 0, sel |-> NoRegion, outcome |-> "none",
     before |-> "none", after |-> "none"]

DabtIdle ==
    /\ DT = DabtTaskNew
    /\ dlast = DabtNoOp

----------------------------------------------------------------------------
(* fs.rs ppoll, timer.rs: the tick count and a task polling the console *)

\* Largest value of the tick count in a run.
MaxTicks == 12

\* sched.rs NTASKS: the number of entries of Wq::tasks
WQ_LEN == 32

\* TICKLOCK after boot: no tick yet, an empty wait queue
TickNew == [ticks |-> 0, count |-> 0]

\* a task in user mode that has not called ppoll
PollNew ==
    [pc |-> "user", start |-> 0, ts |-> [sec |-> 0, nsec |-> 0], timed_out |-> FALSE,
     n |-> 0, ret |-> 0, checks |-> 0, cons_count |-> 0, late |-> FALSE, panic |-> FALSE]

PollIdle ==
    /\ TICK = TickNew
    /\ PO = PollNew

----------------------------------------------------------------------------
(* sched.rs sleep, sleep_if, wakeup, Wq; timer.rs handle_tik; cons.rs push_char *)

\* Number of tasks that sleep and are woken.
NSlp == 2

\* those tasks
SlTasks == 0 .. (NSlp - 1)

\* Largest value of the tick count while tasks sleep and wake.
MaxSlpTicks == 1

\* Largest number of characters in the console buffer.
MaxBuf == 1

\* Largest number of entries of a wait queue when a task evaluates the closure of ppoll.
MaxReg == 2

\* the channels sleep(chan, lock) is called with: addresses of request messages
Chans == {1, 2}

\* the wait queues: cons.rs BUF.wq and the one of timer.rs TICKLOCK
WqNames == {"BUF", "TICK"}

\* Wq::new; tasks[t] is the number of entries of Wq::tasks that point to task t
WqNew == [tasks |-> [t \in SlTasks |-> 0], lock |-> FALSE]

\* every task has been preempted once: it is Ready and resumes inside yild; the
\* CPU is at the top of the loop of scheduler()
SlNew ==
    [state |-> [t \in SlTasks |-> "Ready"],
     chan  |-> [t \in SlTasks |-> NoChan],
     lock  |-> [t \in SlTasks |-> FALSE],
     pc    |-> [t \in SlTasks |-> "yild_back"],
     cond  |-> [t \in SlTasks |-> FALSE],
     n     |-> [t \in SlTasks |-> 0],
     start |-> [t \in SlTasks |-> 0],
     tw    |-> [t \in SlTasks |-> FALSE],
     arg   |-> [t \in SlTasks |-> NoChan],
     L     |-> NoTask,
     cpu   |-> [task_idx |-> NoTask, mode |-> "scheduler", i |-> 0],
     buf   |-> 0,
     ticks |-> 0,
     wq    |-> [q \in WqNames |-> WqNew],
     last  |-> [op |-> "none"],
     panic |-> FALSE]

\* the locks the interrupt model takes: a task's lock, sched.rs WAIT, timer.rs
\* TICKLOCK, p9.rs P9L
Locks == {"task", "WAIT", "TICK", "P9L"}

\* sched.rs static CPUS and PSTATE at the entry of scheduler(): interrupts masked
\* since reset, int_enable: false, int_disables: 0, task_idx: None, no lock held
IcNew ==
    [masked |-> TRUE, int_enable |-> FALSE, int_disables |-> 0, task |-> FALSE,
     held |-> {}, mode |-> "scheduler", ret |-> "none", in_get_task |-> FALSE,
     first_enabled |-> FALSE, last |-> [op |-> "none"], panic |-> FALSE]

\* the number of task slots of the fork model
NFk == 3
FkTasks == 0 .. (NFk - 1)

\* Task::zeroed
FkTaskZeroed ==
    [state |-> "Free", pid |-> 0, parent |-> NoTask, lock |-> FALSE, tid |-> FALSE,
     chan |-> NoTask, ctx |-> "none"]

\* trap::Frame, the registers a system call reads and writes
FrameZeroed == [r0 |-> 0, r8 |-> 0]

\* sched.rs TASKS, WAIT and CPUS once init (pid 0, made by create_task) runs in
\* user mode: the other slots are Free, WAIT is free, the scheduler's loop is at
\* the slot after init
FkNew ==
    [tasks |-> [t \in FkTasks |->
                    IF t = 0
                    THEN [FkTaskZeroed EXCEPT !.state = "Running", !.ctx = "user"]
                    ELSE FkTaskZeroed],
     tf    |-> [t \in FkTasks |-> FrameZeroed],
     WAIT  |-> NoTask,
     cur   |-> 0,
     i     |-> 1 % NFk,
     nt    |-> NoTask,
     ret   |-> 0,
     under |-> FALSE,
     last  |-> [op |-> "none"],
     panic |-> FALSE]

\* Number of fds a task opens 9P files on in the model (beyond the console's).
MaxNpFds == 2
NpFds == 0 .. (MaxNpFds - 1)

\* the file layer of one task after p9::init (fid 0 is wasted on the root): no
\* 9P file is open; the locals of a system call: the messages sent with the kind
\* of each reply, the fids alloc_fid returned, the fids clunked and freed
NpNew ==
    [FS      |-> [s \in Slots |-> FileZeroed],
     files   |-> [fd \in NpFds |-> NoFile],
     fid_bs  |-> {0},
     msgs    |-> <<>>,
     allocd  |-> {},
     clunked |-> {},
     freed   |-> {},
     fid     |-> 0,
     res     |-> "Ok",
     ret     |-> 0,
     last    |-> [sys |-> "none"],
     panic   |-> FALSE]

\* the device classes virtio::init brings up
Devs == {"p9", "rng", "blk"}

\* the registers of a virtio-mmio device after power-on, with the properties of
\* the device: whether it accepts the driver's features, whether a write to
\* STATUS adds the bits written to the register or replaces it, and QUEUENUMMAX
VdRegsNew ==
    [STATUS |-> 0, QUEUESEL |-> 0, QUEUENUM |-> 0, QUEUEREADY |-> 0,
     DRIVERFEATURES |-> 0, desc |-> FALSE, avail |-> FALSE, used |-> FALSE,
     accepts |-> TRUE, ors |-> FALSE, qmax |-> 0]

\* virtio::init before the first device is found: no register was written;
\* written: the values written to STATUS; at_ok: what the device knew of queue 0
\* when DRIVER_OK was written; status: the local of the init routine
VdNew ==
    [regs    |-> [d \in Devs |-> VdRegsNew],
     written |-> [d \in Devs |-> <<>>],
     at_ok   |-> [d \in Devs |-> [ok |-> FALSE, num |-> FALSE, areas |-> FALSE,
                                   ready |-> FALSE]],
     cur     |-> "none",
     pc      |-> "idle",
     status  |-> 0,
     done    |-> {},
     panic   |-> FALSE]

\* pm.rs GB / 4096: the frames of RAM (Allocator::init hardcodes 1 GiB), and
\* sched.rs REGION_MAX_SZ / 4096
GB_PAGES == 262144
REGION_MAX_SZ == 262144

\* struct Region with the fields Region::alloc reads, in pages
RgRegion(ty, vaddr, cap) == [ty |-> ty, vaddr |-> vaddr, cap |-> cap, len |-> 0]

\* Task::zeroed: mmap at 1 GiB and brk at 2 GiB, cap REGION_MAX_SZ, len 0; the
\* machine before pm::init: free is the number of frames on the free lists
RgNew ==
    [mmap  |-> RgRegion("Mmap", MMAP_VADDR, REGION_MAX_SZ),
     brk   |-> RgRegion("Brk", BRK_VADDR, REGION_MAX_SZ),
     free  |-> 0,
     up    |-> FALSE,
     ret   |-> 0,
     last  |-> [op |-> "none"],
     panic |-> FALSE]

\* Number of tasks that issue 9P requests in the descriptor model (NTASKS is 32).
NVq == 5

\* the tasks of the descriptor model
VqTasks == 0 .. NVq - 1

\* the queue of Q::new and every task in user mode; reqs: the chains published so
\* far; pops: what each pop_used of the latest interrupt cleared; started: the
\* number of tasks that have called rw (the tasks run the same program and are
\* numbered in the order of their first request)
VqNew ==
    [q     |-> QNew,
     up    |-> FALSE,
     started |-> 0,
     state |-> [t \in VqTasks |-> "user"],
     reqs  |-> <<>>,
     pops  |-> {},
     last  |-> [op |-> "none"],
     panic |-> FALSE]

\* the claims settled on models of their own
LateIdle ==
    /\ RG = RgNew
    /\ VQ = VqNew

\* the subsystems modelled on the task states alone
KernIdle ==
    /\ LateIdle
    /\ SL = SlNew
    /\ IC = IcNew
    /\ FK = FkNew
    /\ NP = NpNew
    /\ VD = VdNew

\* the subsystems that have a specification of their own after the file layer
RestIdle ==
    /\ VmIdle
    /\ DabtIdle
    /\ PollIdle
    /\ KernIdle

\* the state of the subsystems added to the model while others are exercised
MoreIdle ==
    /\ FsIdle
    /\ RestIdle

\* the fork / copy-on-write state while only the allocator is exercised
CowIdle ==
    /\ TASKS = [t \in Tasks |-> TaskZeroed]
    /\ mem = [f \in Frames |-> 0]
    /\ panicked = FALSE
    /\ last = [op |-> "none"]
    /\ cowlog = {}

\* k_end is either one frame short of the last maximal block or on its boundary
KEnds == {LastBlock - 1, LastBlock}

InitPm ==
    /\ kend \in KEnds
    /\ ALLOC = AllocatorInit(kend)
    /\ peak = 0
    /\ CowIdle
    /\ SchedIdle
    /\ P9Idle
    /\ MoreIdle

\* pm::alloc(n)
PmAlloc(n) ==
    /\ ~ALLOC.panic
    /\ LET r == alloc(ALLOC, n)
       IN  /\ r.ok
           /\ ALLOC' = r.a
           /\ peak' = IF LiveHeads(ALLOC) = {} THEN 1
                      ELSE IF Cardinality(LiveHeads(r.a)) > peak
                      THEN Cardinality(LiveHeads(r.a)) ELSE peak
    /\ UNCHANGED <<kend, varsCow, varsSched, varsP9, varsMore>>

\* pm::free(addr): addr is any frame of an allocated block (interior frames are ignored)
PmFree(idx) ==
    /\ ~ALLOC.panic
    /\ ALLOC.pages[idx].flags \in {"Used", "Cow", "Mid"}
    /\ ALLOC' = free(ALLOC, idx)
    /\ UNCHANGED <<kend, peak, varsCow, varsSched, varsP9, varsMore>>

\* pm::dup(addr)
PmDup(idx) ==
    /\ ~ALLOC.panic
    /\ ALLOC.pages[idx].flags \in {"Used", "Cow"}
    /\ ExtraRefs(ALLOC) < MaxDup
    /\ ALLOC' = dup_for_cow(ALLOC, idx)
    /\ UNCHANGED <<kend, peak, varsCow, varsSched, varsP9, varsMore>>

NextPm ==
    \/ \E n \in 1 .. Pow2(MaxOrder) : PmAlloc(n)
    \/ \E idx \in Frames : PmFree(idx)
    \/ \E idx \in Frames : PmDup(idx)

SpecPm == InitPm /\ [][NextPm]_vars

----------------------------------------------------------------------------
(* fork, copy-on-write faults and task teardown on top of the allocator *)

NoOp == [op |-> "none", t |-> NoTask, nt |-> NoTask, v |-> <<"none", 0>>, act |-> "none"]

\* tasks that run user code
Live(t) == TASKS[t].state = "Ready"

\* task 0 is the init process: it forks and never touches its memory again
User(t) == Live(t) /\ t # 0

\* tasks whose page table has a leaf on frame f
Mappers(tasks, f) == {u \in Tasks : \E v \in VAddrs : tasks[u].pt[v].p = f}

\* install the machine state m as the next state
Install(m) ==
    /\ ALLOC' = m.a
    /\ TASKS' = m.tasks
    /\ mem' = m.mem
    /\ panicked' = m.panic

InitCow ==
    /\ kend = Pow2(MaxOrder)
    /\ ALLOC = AllocatorInit(kend)
    /\ peak = 0
    /\ TASKS = [t \in Tasks |-> TaskZeroed]
    /\ mem = [f \in Frames |-> 0]
    /\ panicked = FALSE
    /\ last = NoOp
    /\ cowlog = {}
    /\ SchedIdle
    /\ P9Idle
    /\ MoreIdle

\* sched.rs create_task: the task alloc_task returned becomes Ready
create_task(m, t) ==
    IF m.panic THEN m ELSE [m EXCEPT !.tasks[t].state = "Ready"]

\* main.rs: create_task, then the first forkret of task 0 execs the init image
Boot ==
    /\ ~panicked
    /\ \A t \in Tasks : TASKS[t].state = "Free"
    /\ Install(execv_inner(create_task(alloc_task(Machine, 0), 0), 0))
    /\ last' = [NoOp EXCEPT !.op = "boot", !.t = 0]
    /\ UNCHANGED <<kend, peak, cowlog, varsSched, varsP9, varsMore>>

Brk(t) ==
    /\ ~panicked /\ User(t)
    /\ TASKS[t].brk_len + TASKS[t].mmap_len < MaxPages
    /\ Install(brk(Machine, t))
    /\ last' = [NoOp EXCEPT !.op = "brk", !.t = t]
    /\ UNCHANGED <<kend, peak, cowlog, varsSched, varsP9, varsMore>>

Mmap(t, prot) ==
    /\ ~panicked /\ User(t)
    /\ TASKS[t].brk_len + TASKS[t].mmap_len < MaxPages
    /\ Install(mmap(Machine, t, prot))
    /\ last' = [NoOp EXCEPT !.op = "mmap", !.t = t]
    /\ UNCHANGED <<kend, peak, cowlog, varsSched, varsP9, varsMore>>

Fork(t) ==
    /\ ~panicked /\ Live(t)
    /\ FreeSlots(Machine) # {}
    /\ Install(fork(Machine, t, FirstFree(Machine)))
    /\ last' = [NoOp EXCEPT !.op = "fork", !.t = t, !.nt = FirstFree(Machine)]
    /\ UNCHANGED <<kend, peak, cowlog, varsSched, varsP9, varsMore>>

\* a user store to a page whose leaf allows user writes
UserWrite(t, v, val) ==
    /\ ~panicked /\ User(t)
    /\ TASKS[t].pt[v].perms = "PR_PW_UR_UW1"
    /\ mem' = [mem EXCEPT ![TASKS[t].pt[v].p] = val]
    /\ last' = [NoOp EXCEPT !.op = "write", !.t = t, !.v = v]
    /\ UNCHANGED <<varsPm, TASKS, panicked, cowlog, varsSched, varsP9, varsMore>>

\* a user store to a page whose leaf does not allow user writes: data abort
DabtHandler(t, v) ==
    /\ ~panicked /\ User(t)
    /\ TASKS[t].pt[v].perms # "PR_PW_UR_UW1"
    /\ Install(dabt_handler(Machine, t, v))
    /\ LET pm  == TASKS[t].pt[v].p
           act == IF pm = NoFrame THEN "none" ELSE cow_action(Machine, pm)
       IN  /\ last' = [NoOp EXCEPT !.op = "dabt", !.t = t, !.v = v, !.act = act]
           /\ cowlog' = IF act = "Alloc" /\ ~panicked'
                        THEN cowlog \cup {[f |-> pm, sharers |-> Mappers(TASKS, pm)]}
                        ELSE cowlog
    /\ UNCHANGED <<kend, peak, varsSched, varsP9, varsMore>>

Exit(t) ==
    /\ ~panicked /\ Live(t)
    /\ Install(exit(Machine, t))
    /\ last' = [NoOp EXCEPT !.op = "exit", !.t = t]
    /\ UNCHANGED <<kend, peak, cowlog, varsSched, varsP9, varsMore>>

NextCow ==
    \/ Boot
    \/ \E t \in Tasks : Brk(t)
    \/ \E t \in Tasks, prot \in {3} : Mmap(t, prot)
    \/ \E t \in Tasks : Fork(t)
    \/ \E t \in Tasks, v \in CowRegions \X {0}, val \in 1 .. MaxVal :
          v \in VAddrs /\ UserWrite(t, v, val)
    \/ \E t \in Tasks, v \in VAddrs : DabtHandler(t, v)
    \/ \E t \in Tasks : Exit(t)

SpecCow == InitCow /\ [][NextCow]_vars

----------------------------------------------------------------------------
(* The task table on the one CPU: scheduler, fork, yild, wait, sleep, wakeup, exit *)

\* the address of task t: the channel wait() sleeps on and free_task wakes
ChanOf(t) == t + 1

\* the task the CPU runs
Cur == cpu.task_idx

\* the CPU executes the code at pc
At(pc) == cpu.pc = pc

\* what the scheduler model leaves alone
idleSched == <<varsPm, mem, panicked, last, cowlog, varsP9, varsMore>>

\* the changes of Task::state made by the step
Observe ==
    seen' = seen \cup {<<TASKS[t].state, TASKS'[t].state>> :
                          t \in {u \in Tasks : TASKS'[u].state # TASKS[u].state}}

\* a scheduler that also runs Sleeping tasks
runnable_any(state) == state \in {"Ready", "Sleeping"}

\* scheduler(): the arm State::Ready of the match on task.state
runnable(state) == state = "Ready"

\* a sleep that leaves Task::chan alone
set_chan_none(chans, t, c) == chans

\* sleep(): task.chan = Some(chan)
set_chan(chans, t, c) == [chans EXCEPT ![t] = c]

\* a wakeup that finds no task
wakeup_none(tasks, chans, c) == tasks

\* sched.rs wakeup(chan): every Sleeping task whose chan is Some(chan) becomes Ready
wakeup(tasks, chans, c) ==
    [t \in Tasks |->
        IF tasks[t].state = "Sleeping" /\ chans[t] # NoChan /\ chans[t] = c
        THEN [tasks[t] EXCEPT !.state = "Ready"]
        ELSE tasks[t]]

\* Lock::acquire on every task lock in turn succeeds (the loops of alloc_task,
\* wait and wakeup spin otherwise)
AllUnlocked == \A t \in Tasks : ~locked[t]

\* the children of task t that wait() looks at
Children(t) == {c \in Tasks : TASKS[c].parent = t}

\* the child wait() reaps: the first Zombie one in index order
FirstZombie(t) ==
    CHOOSE c \in Children(t) :
        /\ TASKS[c].state = "Zombie"
        /\ \A d \in Children(t) : TASKS[d].state = "Zombie" => c <= d

InitSched ==
    /\ kend = Pow2(MaxOrder)
    /\ ALLOC = AllocatorInit(kend)
    /\ peak = 0
    /\ CowIdle
    /\ SchedIdle
    /\ P9Idle
    /\ MoreIdle

\* main.rs: create_task calls alloc_task: the first Free slot becomes Used, its
\* lock stays held
CreateTaskAlloc ==
    /\ At("main")
    /\ FreeSlots(Machine) # {}
    /\ AllUnlocked
    /\ TASKS' = [TASKS EXCEPT ![FirstFree(Machine)].state = "Used"]
    /\ locked' = [locked EXCEPT ![FirstFree(Machine)] = TRUE]
    /\ cpu' = [cpu EXCEPT !.pc = "create_task", !.nt = FirstFree(Machine)]
    /\ Observe
    /\ UNCHANGED <<idleSched, chan, WAIT, ctx, waiting>>

\* create_task: the task becomes Ready, its lock is released; main enters scheduler()
CreateTaskReady ==
    /\ At("create_task")
    /\ TASKS' = [TASKS EXCEPT ![cpu.nt].state = "Ready"]
    /\ locked' = [locked EXCEPT ![cpu.nt] = FALSE]
    /\ ctx' = [ctx EXCEPT ![cpu.nt] = "forkret"]
    /\ cpu' = [cpu EXCEPT !.pc = "scheduler", !.nt = NoTask]
    /\ Observe
    /\ UNCHANGED <<idleSched, chan, WAIT, waiting>>

\* scheduler(): tasks[i] is Ready: it becomes Running and the CPU switches to it
SchedulerPick ==
    /\ At("scheduler")
    /\ ~locked[cpu.i]
    /\ runnable(TASKS[cpu.i].state)
    /\ locked' = [locked EXCEPT ![cpu.i] = TRUE]
    /\ TASKS' = [TASKS EXCEPT ![cpu.i].state = "Running"]
    /\ cpu' = [cpu EXCEPT !.task_idx = cpu.i, !.pc = ctx[cpu.i]]
    /\ Observe
    /\ UNCHANGED <<idleSched, chan, WAIT, ctx, waiting>>

\* scheduler(): tasks[i] is not Ready: next slot
SchedulerSkip ==
    /\ At("scheduler")
    /\ ~locked[cpu.i]
    /\ ~runnable(TASKS[cpu.i].state)
    /\ cpu' = [cpu EXCEPT !.i = (cpu.i + 1) % NTasks]
    /\ UNCHANGED <<idleSched, TASKS, chan, locked, WAIT, ctx, waiting, seen>>

\* scheduler() after switch returned: task_idx = None, the task's lock is dropped
SchedulerBack ==
    /\ At("scheduler_back")
    /\ locked' = [locked EXCEPT ![cpu.i] = FALSE]
    /\ cpu' = [cpu EXCEPT !.task_idx = NoTask, !.pc = "scheduler",
                          !.i = (cpu.i + 1) % NTasks]
    /\ UNCHANGED <<idleSched, TASKS, chan, WAIT, ctx, waiting, seen>>

\* forkret: release the lock held in scheduler(), go to user mode
Forkret ==
    /\ At("forkret")
    /\ locked' = [locked EXCEPT ![Cur] = FALSE]
    /\ cpu' = [cpu EXCEPT !.pc = "user"]
    /\ UNCHANGED <<idleSched, TASKS, chan, WAIT, ctx, waiting, seen>>

\* timer tick in user mode: yild takes the task lock, marks the task Ready, sched()
Yild ==
    /\ At("user")
    /\ ~locked[Cur]
    /\ locked' = [locked EXCEPT ![Cur] = TRUE]
    /\ TASKS' = [TASKS EXCEPT ![Cur].state = "Ready"]
    /\ ctx' = [ctx EXCEPT ![Cur] = "yild_back"]
    /\ cpu' = [cpu EXCEPT !.pc = "scheduler_back"]
    /\ Observe
    /\ UNCHANGED <<idleSched, chan, WAIT, waiting>>

\* yild after sched() returned: drop(lock)
YildBack ==
    /\ At("yild_back")
    /\ locked' = [locked EXCEPT ![Cur] = FALSE]
    /\ cpu' = [cpu EXCEPT !.pc = "user"]
    /\ UNCHANGED <<idleSched, TASKS, chan, WAIT, ctx, waiting, seen>>

\* fork calls alloc_task: the first Free slot becomes Used, its lock stays held
ForkAlloc ==
    /\ At("user")
    /\ FreeSlots(Machine) # {}
    /\ AllUnlocked
    /\ TASKS' = [TASKS EXCEPT ![FirstFree(Machine)].state = "Used"]
    /\ locked' = [locked EXCEPT ![FirstFree(Machine)] = TRUE]
    /\ cpu' = [cpu EXCEPT !.pc = "fork_used", !.nt = FirstFree(Machine)]
    /\ Observe
    /\ UNCHANGED <<idleSched, chan, WAIT, ctx, waiting>>

\* fork: the child becomes Ready, gets its parent under WAIT, its lock is released
ForkReady ==
    /\ At("fork_used")
    /\ ~WAIT
    /\ TASKS' = [TASKS EXCEPT ![cpu.nt].state = "Ready", ![cpu.nt].parent = Cur]
    /\ locked' = [locked EXCEPT ![cpu.nt] = FALSE]
    /\ ctx' = [ctx EXCEPT ![cpu.nt] = "forkret"]
    /\ cpu' = [cpu EXCEPT !.pc = "user", !.nt = NoTask]
    /\ Observe
    /\ UNCHANGED <<idleSched, chan, WAIT, waiting>>

\* wait: WAIT.acquire()
WaitLock ==
    /\ At("user")
    /\ ~WAIT
    /\ WAIT' = TRUE
    /\ cpu' = [cpu EXCEPT !.pc = "wait_scan"]
    /\ UNCHANGED <<idleSched, TASKS, chan, locked, ctx, waiting, seen>>

\* wait: a child is a Zombie: its slot becomes Free, wait returns its pid
WaitReap ==
    /\ At("wait_scan")
    /\ AllUnlocked
    /\ \E c \in Children(Cur) : TASKS[c].state = "Zombie"
    /\ TASKS' = [TASKS EXCEPT ![FirstZombie(Cur)].state = "Free",
                              ![FirstZombie(Cur)].parent = NoTask]
    /\ WAIT' = FALSE
    /\ cpu' = [cpu EXCEPT !.pc = "user"]
    /\ Observe
    /\ UNCHANGED <<idleSched, chan, locked, ctx, waiting>>

\* wait: no task has the caller as parent: return !0
WaitNoChild ==
    /\ At("wait_scan")
    /\ AllUnlocked
    /\ Children(Cur) = {}
    /\ WAIT' = FALSE
    /\ cpu' = [cpu EXCEPT !.pc = "user"]
    /\ UNCHANGED <<idleSched, TASKS, chan, locked, ctx, waiting, seen>>

\* wait: children but no Zombie: sleep(ptr, WAIT) starts with task.lock.acquire()
SleepLock ==
    /\ At("wait_scan")
    /\ AllUnlocked
    /\ Children(Cur) # {}
    /\ \A c \in Children(Cur) : TASKS[c].state # "Zombie"
    /\ locked' = [locked EXCEPT ![Cur] = TRUE]
    /\ cpu' = [cpu EXCEPT !.pc = "sleep_locked"]
    /\ UNCHANGED <<idleSched, TASKS, chan, WAIT, ctx, waiting, seen>>

\* sleep: lock.release()
SleepRelease ==
    /\ At("sleep_locked")
    /\ WAIT' = FALSE
    /\ waiting' = [waiting EXCEPT ![Cur] = ChanOf(Cur)]
    /\ cpu' = [cpu EXCEPT !.pc = "sleep_released"]
    /\ UNCHANGED <<idleSched, TASKS, chan, locked, ctx, seen>>

\* sleep: task.state = State::Sleeping
SleepState ==
    /\ At("sleep_released")
    /\ TASKS' = [TASKS EXCEPT ![Cur].state = "Sleeping"]
    /\ cpu' = [cpu EXCEPT !.pc = "sleep_state"]
    /\ Observe
    /\ UNCHANGED <<idleSched, chan, locked, WAIT, ctx, waiting>>

\* sleep: task.chan = Some(chan)
SleepChan ==
    /\ At("sleep_state")
    /\ chan' = set_chan(chan, Cur, ChanOf(Cur))
    /\ cpu' = [cpu EXCEPT !.pc = "sleep_chan"]
    /\ UNCHANGED <<idleSched, TASKS, locked, WAIT, ctx, waiting, seen>>

\* sleep: sched() switches to the scheduler
SleepSched ==
    /\ At("sleep_chan")
    /\ TASKS[Cur].state # "Running"
    /\ ctx' = [ctx EXCEPT ![Cur] = "sleep_woken"]
    /\ cpu' = [cpu EXCEPT !.pc = "scheduler_back"]
    /\ UNCHANGED <<idleSched, TASKS, chan, locked, WAIT, waiting, seen>>

\* sleep after sched() returned: task.chan = None
SleepWoken ==
    /\ At("sleep_woken")
    /\ chan' = [chan EXCEPT ![Cur] = NoChan]
    /\ waiting' = [waiting EXCEPT ![Cur] = NoChan]
    /\ cpu' = [cpu EXCEPT !.pc = "sleep_cleared"]
    /\ UNCHANGED <<idleSched, TASKS, locked, WAIT, ctx, seen>>

\* sleep: lock.acquire(), then the task lock is dropped; back in the loop of wait
SleepReacquire ==
    /\ At("sleep_cleared")
    /\ ~WAIT
    /\ WAIT' = TRUE
    /\ locked' = [locked EXCEPT ![Cur] = FALSE]
    /\ cpu' = [cpu EXCEPT !.pc = "wait_scan"]
    /\ UNCHANGED <<idleSched, TASKS, chan, ctx, waiting, seen>>

\* exit of a task other than pid 0 (which panics): free_task takes WAIT
ExitLock ==
    /\ At("user")
    /\ Cur # 0
    /\ ~WAIT
    /\ WAIT' = TRUE
    /\ cpu' = [cpu EXCEPT !.pc = "exit_wait"]
    /\ UNCHANGED <<idleSched, TASKS, chan, locked, ctx, waiting, seen>>

\* free_task: wakeup(parent) when the task has a parent
ExitWakeup ==
    /\ At("exit_wait")
    /\ AllUnlocked
    /\ TASKS' = IF TASKS[Cur].parent = NoTask THEN TASKS
                ELSE wakeup(TASKS, chan, ChanOf(TASKS[Cur].parent))
    /\ waiting' = [t \in Tasks |->
                      IF TASKS[Cur].parent # NoTask
                         /\ waiting[t] = ChanOf(TASKS[Cur].parent)
                      THEN NoChan ELSE waiting[t]]
    /\ cpu' = [cpu EXCEPT !.pc = "exit_woken"]
    /\ Observe
    /\ UNCHANGED <<idleSched, chan, locked, WAIT, ctx>>

\* free_task: task.lock.acquire(), state = Zombie, forget(lock)
ExitZombie ==
    /\ At("exit_woken")
    /\ ~locked[Cur]
    /\ locked' = [locked EXCEPT ![Cur] = TRUE]
    /\ TASKS' = [TASKS EXCEPT ![Cur].state = "Zombie"]
    /\ cpu' = [cpu EXCEPT !.pc = "exit_zombie"]
    /\ Observe
    /\ UNCHANGED <<idleSched, chan, WAIT, ctx, waiting>>

\* free_task drops WAIT and returns; exit calls sched()
ExitSched ==
    /\ At("exit_zombie")
    /\ WAIT' = FALSE
    /\ ctx' = [ctx EXCEPT ![Cur] = "none"]
    /\ cpu' = [cpu EXCEPT !.pc = "scheduler_back"]
    /\ UNCHANGED <<idleSched, TASKS, chan, locked, waiting, seen>>

NextSched ==
    \/ CreateTaskAlloc
    \/ CreateTaskReady
    \/ SchedulerPick
    \/ SchedulerSkip
    \/ SchedulerBack
    \/ Forkret
    \/ Yild
    \/ YildBack
    \/ ForkAlloc
    \/ ForkReady
    \/ WaitLock
    \/ WaitReap
    \/ WaitNoChild
    \/ SleepLock
    \/ SleepRelease
    \/ SleepState
    \/ SleepChan
    \/ SleepSched
    \/ SleepWoken
    \/ SleepReacquire
    \/ ExitLock
    \/ ExitWakeup
    \/ ExitZombie
    \/ ExitSched

SpecSched == InitSched /\ [][NextSched]_vars

----------------------------------------------------------------------------
(* The 9P virtqueue: requests of rw, the device, irq_handle *)

\* Largest number of rw requests issued after p9::init.
MaxReqs == 3

\* used_pos, avail.idx and used.idx are u16
U16 == 65536

\* Option<u16>::None of first_clr and get_next
NoDesc == -1

\* BitSet128::first_clr
first_clr(bs) ==
    IF Descs \ bs = {} THEN NoDesc
    ELSE CHOOSE d \in Descs \ bs : \A e \in Descs \ bs : d <= e

\* BitSet128::set; the descriptor starts a new life
set(q, bit) == [q EXCEPT !.desc_bs = @ \cup {bit}, !.cleared[bit] = 0]

\* BitSet128::clr
clr(q, bit) == [q EXCEPT !.desc_bs = @ \ {bit}, !.cleared[bit] = @ + 1]

\* an alloc_desc that leaves the allocation bit alone
alloc_desc_noset(q) ==
    IF first_clr(q.desc_bs) = NoDesc THEN q
    ELSE [q EXCEPT !.desc_data[first_clr(q.desc_bs)] = 0]

\* Q::alloc_desc; the index handed out is first_clr(q.desc_bs)
alloc_desc(q) ==
    IF first_clr(q.desc_bs) = NoDesc THEN q
    ELSE [set(q, first_clr(q.desc_bs)) EXCEPT !.desc_data[first_clr(q.desc_bs)] = 0]

\* VqDesc::set_next on descriptor d
set_next(q, d, idx) ==
    [q EXCEPT !.desc[d].next = idx, !.desc[d].flags = @ \cup {"F_NEXT"}]

\* VqDesc::set_writable on descriptor d
set_writable(q, d) == [q EXCEPT !.desc[d].flags = @ \cup {"F_WRITE"}]

\* VqDesc::get_next of descriptor d
get_next(q, d) ==
    IF "F_NEXT" \in q.desc[d].flags THEN q.desc[d].next ELSE NoDesc

\* Q::set_desc_data
set_desc_data(q, idx, data) == [q EXCEPT !.desc_data[idx] = data]

\* Q::add_avail
add_avail(q, head) ==
    [q EXCEPT !.avail.ring[q.avail.idx % QSIZE] = head,
              !.avail.idx = (@ + 1) % U16]

\* a free_desc that clears the head only
free_desc_head(q, hidx) == clr(q, hidx)

\* Q::free_desc, the loop: descriptor d is cleared, i descriptors so far
RECURSIVE free_desc_next(_, _, _)
free_desc_next(q, d, i) ==
    IF get_next(q, d) = NoDesc \/ q.panic THEN q
    ELSE IF i >= QSIZE THEN [q EXCEPT !.panic = TRUE]
    ELSE free_desc_next(clr(q, get_next(q, d)), get_next(q, d), i + 1)

\* Q::free_desc
free_desc(q, hidx) == free_desc_next(clr(q, hidx), hidx, 1)

\* a pop_used that frees the chain at the ring position instead of used.id
pop_used_pos(q) ==
    [free_desc(q, q.used_pos % QSIZE) EXCEPT !.used_pos = (@ + 1) % U16]

\* Q::pop_used
pop_used(q) ==
    [free_desc(q, q.used.ring[q.used_pos % QSIZE])
        EXCEPT !.used_pos = (@ + 1) % U16]

\* Q::peek_used returns Some
has_used(q) == q.used_pos # q.used.idx

\* Q::peek_used: the data handed back with the descriptor
peek_used(q) == q.desc_data[q.used_pos % QSIZE]

\* the device completes the chain starting at head: one more used-ring entry
device_use(q, head) ==
    [q EXCEPT !.used.ring[q.used.idx % QSIZE] = head,
              !.used.idx = (@ + 1) % U16]

\* the two-descriptor chain every 9P operation builds: d1 -> d2, d2 device-writable
chain(q, d1, d2) == set_writable(set_next(q, d1, d2), d2)

\* set_version / attach: publish, wait_use until the device answered, pop_used
sync_roundtrip(q, d1, d2) ==
    pop_used(device_use(add_avail(chain(q, d1, d2), d1), d1))

\* set_version / attach after the first alloc_desc
sync_second(q, d1) == sync_roundtrip(alloc_desc(q), d1, first_clr(q.desc_bs))

\* p9.rs ops::set_version
set_version(q) == sync_second(alloc_desc(q), first_clr(q.desc_bs))

\* p9.rs ops::attach
attach(q) == sync_second(alloc_desc(q), first_clr(q.desc_bs))

\* rw: the chain is built, the channel recorded for d1, the head published
rw_publish(q, d1, d2, data) ==
    add_avail(set_desc_data(chain(q, d1, d2), d1, data), d1)

\* rw after the first alloc_desc
rw_second(q, d1, data) == rw_publish(alloc_desc(q), d1, first_clr(q.desc_bs), data)

\* rw up to add_avail; data is msg.get_self_ptr()
rw_submit(q, data) == rw_second(alloc_desc(q), first_clr(q.desc_bs), data)

\* requests whose used-ring entry sits at position pos
ReqsAt(rs, pos) == {r \in DOMAIN rs : rs[r].upos = pos}

\* requests published and not yet popped from the used ring
InFlight(rs) == {r \in DOMAIN rs : rs[r].popped = 0}

\* the latest request of task t
CurReq(t) ==
    CHOOSE r \in DOMAIN reqs :
        reqs[r].t = t /\ \A s \in DOMAIN reqs : reqs[s].t = t => s <= r

\* irq_handle, one turn of the loop: peek_used, wakeup(data) unless 0, pop_used
drain_one(k, chans) ==
    [q     |-> pop_used(k.q),
     tasks |-> IF peek_used(k.q) # 0 THEN wakeup(k.tasks, chans, peek_used(k.q))
               ELSE k.tasks,
     reqs  |-> [r \in DOMAIN k.reqs |->
                   IF r \in ReqsAt(k.reqs, k.q.used_pos)
                   THEN [k.reqs[r] EXCEPT !.popped = @ + 1] ELSE k.reqs[r]],
     log   |-> k.log \cup
               {[pos      |-> k.q.used_pos,
                 id       |-> k.q.used.ring[k.q.used_pos % QSIZE],
                 passed   |-> peek_used(k.q),
                 woken    |-> {t \in Tasks : /\ peek_used(k.q) # 0
                                             /\ k.tasks[t].state = "Sleeping"
                                             /\ chans[t] = peek_used(k.q)},
                 inflight |-> {k.reqs[r].t : r \in InFlight(k.reqs)}]}]

\* irq_handle: the loop over the used ring
RECURSIVE irq_drain(_, _)
irq_drain(k, chans) ==
    IF ~has_used(k.q) \/ k.q.panic THEN k ELSE irq_drain(drain_one(k, chans), chans)

\* what the 9P model leaves alone
idleP9 == <<varsPm, mem, panicked, last, cowlog, WAIT, waiting, varsMore>>

\* p9::init ran set_version and attach; the tasks are in user mode, preempted
InitP9 ==
    /\ kend = Pow2(MaxOrder)
    /\ ALLOC = AllocatorInit(kend)
    /\ peak = 0
    /\ TASKS = [t \in Tasks |-> [TaskZeroed EXCEPT !.state = "Ready"]]
    /\ mem = [f \in Frames |-> 0]
    /\ panicked = FALSE
    /\ last = [op |-> "none"]
    /\ cowlog = {}
    /\ chan = [t \in Tasks |-> NoChan]
    /\ locked = [t \in Tasks |-> FALSE]
    /\ WAIT = FALSE
    /\ cpu = [CpuNew EXCEPT !.pc = "scheduler"]
    /\ ctx = [t \in Tasks |-> "yild_back"]
    /\ waiting = [t \in Tasks |-> NoChan]
    /\ seen = {}
    /\ P9 = attach(set_version(QNew))
    /\ MoreIdle
    /\ reqs = <<>>
    /\ irqlog = {}

\* rw of the running task: build and publish the request, sleep on the message
Rw ==
    /\ At("user")
    /\ Len(reqs) < MaxReqs
    /\ Cardinality(Descs \ P9.desc_bs) >= 2
    /\ ~locked[Cur]
    /\ P9' = rw_submit(P9, ChanOf(Cur))
    /\ reqs' = Append(reqs, [t      |-> Cur,
                             head   |-> first_clr(P9.desc_bs),
                             descs  |-> P9'.desc_bs \ P9.desc_bs,
                             chan   |-> ChanOf(Cur),
                             done   |-> FALSE,
                             upos   |-> NoDesc,
                             popped |-> 0,
                             ret    |-> "no"])
    /\ locked' = [locked EXCEPT ![Cur] = TRUE]
    /\ TASKS' = [TASKS EXCEPT ![Cur].state = "Sleeping"]
    /\ chan' = set_chan(chan, Cur, ChanOf(Cur))
    /\ ctx' = [ctx EXCEPT ![Cur] = "rw_woken"]
    /\ cpu' = [cpu EXCEPT !.pc = "scheduler_back"]
    /\ Observe
    /\ UNCHANGED <<idleP9, irqlog>>

\* rw after sleep returned: the reply is read from the message
RwReturn ==
    /\ At("rw_woken")
    /\ chan' = [chan EXCEPT ![Cur] = NoChan]
    /\ locked' = [locked EXCEPT ![Cur] = FALSE]
    /\ reqs' = [reqs EXCEPT ![CurReq(Cur)].ret =
                   IF reqs[CurReq(Cur)].done THEN "ok" ELSE "early"]
    /\ cpu' = [cpu EXCEPT !.pc = "user"]
    /\ UNCHANGED <<idleP9, TASKS, ctx, seen, P9, irqlog>>

\* the device answers request r: reply written, one more used-ring entry
DeviceComplete(r) ==
    /\ r \in DOMAIN reqs
    /\ ~reqs[r].done
    /\ P9' = device_use(P9, reqs[r].head)
    /\ reqs' = [reqs EXCEPT ![r].done = TRUE, ![r].upos = P9.used.idx]
    /\ UNCHANGED <<idleP9, TASKS, chan, locked, cpu, ctx, seen, irqlog>>

\* the state irq_handle leaves behind
InstallIrq(k) ==
    /\ P9' = k.q
    /\ TASKS' = k.tasks
    /\ reqs' = k.reqs
    /\ irqlog' = k.log

\* the device interrupt, taken in user mode or in the scheduler's window
IrqHandle ==
    /\ At("user") \/ At("scheduler")
    /\ has_used(P9)
    /\ AllUnlocked
    /\ InstallIrq(irq_drain([q |-> P9, tasks |-> TASKS, reqs |-> reqs, log |-> irqlog],
                            chan))
    /\ Observe
    /\ UNCHANGED <<idleP9, chan, locked, cpu, ctx>>

NextP9 ==
    \/ SchedulerPick
    \/ SchedulerSkip
    \/ SchedulerBack
    \/ Yild
    \/ YildBack
    \/ Rw
    \/ RwReturn
    \/ \E r \in 1 .. MaxReqs : DeviceComplete(r)
    \/ IrqHandle

SpecP9 == InitP9 /\ [][NextP9]_vars

----------------------------------------------------------------------------
(* The used ring: whom irq_handle wakes, and the life of a descriptor chain *)

\* C2: with two tasks' reads in flight, each used-ring entry wakes exactly the
\* task whose request completed, and no task returns from read before the reply
\* to its own request has arrived.
C2_EachEntryWakesItsTask ==
    /\ \A e \in irqlog : \A r \in ReqsAt(reqs, e.pos) :
           Cardinality(e.inflight) >= 2 => e.woken = {reqs[r].t}
    /\ \A r \in DOMAIN reqs : reqs[r].ret # "early"

\* C3: for every used-ring entry irq_handle drains, the channel passed to wakeup
\* is the channel recorded in desc_data for the head of that entry's chain when
\* the request was submitted.
C3_ChannelOfHead ==
    \A e \in irqlog : \A r \in ReqsAt(reqs, e.pos) : e.passed = reqs[r].chan

\* the descriptors of the chains published and not yet popped from the used ring
Outstanding == UNION {reqs[r].descs : r \in InFlight(reqs)}

\* C4: every published chain is consumed from the used ring at most once, and each
\* of its descriptors goes back to the allocation bitset exactly once: never
\* cleared twice, never left allocated after the chain was consumed.
C4_ChainsOnce ==
    /\ \A r \in DOMAIN reqs : reqs[r].popped <= 1
    /\ \A d \in Descs : P9.cleared[d] <= 1
    /\ \A d \in P9.desc_bs : P9.cleared[d] = 0
    /\ P9.desc_bs = Outstanding
    /\ ~P9.panic

\* a chain was consumed and its descriptors were handed out again
C4_Witness ==
    \E r, s \in DOMAIN reqs :
        /\ r < s
        /\ reqs[r].popped = 1
        /\ reqs[s].descs = reqs[r].descs
        /\ reqs[s].popped = 1

----------------------------------------------------------------------------
(* Sleep / wakeup and the task state machine *)

\* C1 as stated: a task that called sleep(chan, lock) is marked Sleeping with chan
\* published before lock becomes available, i.e. whenever lock is free again.
C1_PublishedBeforeRelease ==
    \A t \in Tasks :
        (waiting[t] # NoChan /\ ~WAIT) =>
            (TASKS[t].state = "Sleeping" /\ chan[t] = waiting[t])

\* the step is free_task's wakeup(c)
WakeupOf(c) ==
    /\ At("exit_wait")
    /\ cpu'.pc = "exit_woken"
    /\ TASKS[Cur].parent # NoTask
    /\ c = ChanOf(TASKS[Cur].parent)

\* C1: no lost wakeup. A task that called sleep(chan, lock) and released lock is
\* marked Sleeping with chan published whenever its own task lock is free, and a
\* producer that acquires lock afterwards and calls wakeup(chan) finds it
\* Sleeping on chan and makes it Ready.
C1_NoLostWakeup ==
    [][/\ \A t \in Tasks :
             (waiting[t] # NoChan /\ ~locked[t]) =>
                 (TASKS[t].state = "Sleeping" /\ chan[t] = waiting[t])
       /\ \A t \in Tasks, c \in {ChanOf(u) : u \in Tasks} :
             (WakeupOf(c) /\ waiting[t] = c) =>
                 /\ TASKS[t].state = "Sleeping"
                 /\ chan[t] = c
                 /\ TASKS'[t].state = "Ready"]_vars

\* a producer has just called wakeup on the channel of a task that slept on it
C1_Witness ==
    /\ At("exit_woken")
    /\ TASKS[Cur].parent # NoTask
    /\ TASKS[TASKS[Cur].parent].state = "Ready"
    /\ chan[TASKS[Cur].parent] = ChanOf(TASKS[Cur].parent)

\* the edges of the task state machine
Edges ==
    {<<"Free", "Used">>, <<"Used", "Ready">>, <<"Ready", "Running">>,
     <<"Running", "Sleeping">>, <<"Running", "Ready">>, <<"Sleeping", "Ready">>,
     <<"Running", "Zombie">>, <<"Zombie", "Free">>}

\* C10: every change of a task slot's state follows one of the edges Free->Used,
\* Used->Ready, Ready->Running, Running->Sleeping, Running->Ready,
\* Sleeping->Ready, Running->Zombie, Zombie->Free.
C10_Transitions ==
    [][\A t \in Tasks :
          TASKS'[t].state # TASKS[t].state =>
              <<TASKS[t].state, TASKS'[t].state>> \in Edges]_vars

\* every edge has been taken
C10_Witness == seen = Edges

----------------------------------------------------------------------------
(* Allocator closure and coalescing *)

\* number of occurrences of frame f on the free list of order o
OnListCount(a, f, o) ==
    Cardinality({k \in 1 .. Len(a.free_lists[o]) : a.free_lists[o][k] = f})

\* the free-list entries <<head, order>>
Listed(a) ==
    UNION {{<<a.free_lists[o][k], o>> : k \in 1 .. Len(a.free_lists[o])} : o \in Orders}

\* the entries of `listed` whose block contains frame f
Covering(listed, f) ==
    {e \in listed : e[1] <= f /\ f < e[1] + PageLen(e[2])}

\* frames handed to the allocator by init_free_list
Managed == {f \in Frames : f >= kend}

\* C8 as written: for every managed frame, flags = None iff the frame itself
\* is on exactly one free list, the list of its current order.
C8_FrameOnListIffNone ==
    \A f \in Managed :
        (ALLOC.pages[f].flags = "None")
            <=> /\ OnListCount(ALLOC, f, ALLOC.pages[f].ord) = 1
                /\ \A o \in Orders \ {ALLOC.pages[f].ord} : OnListCount(ALLOC, f, o) = 0

\* C8 amended: after every alloc, free and dup, a managed frame has flags None
\* iff it lies inside exactly one free block; only heads of free blocks are on
\* free lists, each exactly once and on the list of its current order; nothing
\* outside the managed range is listed and the allocator never hits unreachable!().
C8_Closure ==
    LET listed == Listed(ALLOC)
    IN  /\ ~ALLOC.panic
        /\ \A f \in Managed :
              (ALLOC.pages[f].flags = "None") <=> (Cardinality(Covering(listed, f)) = 1)
        /\ \A f \in Frames : Cardinality(Covering(listed, f)) <= 1
        /\ \A e \in listed :
              /\ e[1] \in Managed
              /\ ALLOC.pages[e[1]].ord = e[2]
              /\ ALLOC.pages[e[1]].flags = "None"
              /\ ALLOC.pages[e[1]].ref_cnt = 0
              /\ OnListCount(ALLOC, e[1], e[2]) = 1

\* C8 witness: blocks are allocated, one of them shared by dup, one block has
\* been freed into a list while its buddy is still in use.
C8_Witness ==
    /\ \E f \in Frames : ALLOC.pages[f].flags = "Cow" /\ ALLOC.pages[f].ref_cnt = 2
    /\ \E f \in Frames : ALLOC.pages[f].flags = "Mid"
    /\ \E e \in Listed(ALLOC) : e[2] = MaxOrder /\ e[1] >= LastBlock
    /\ peak >= 3

\* C9: whenever every block allocated since boot has been freed again, the
\* free lists are those of boot: with k_end on a block boundary exactly one
\* order-0 block at the original head and no entry at any higher order.
C9_FullyCoalesced ==
    (LiveHeads(ALLOC) = {}) =>
        /\ ALLOC.free_lists = AllocatorInit(kend).free_lists
        /\ (kend = LastBlock) =>
              /\ ALLOC.free_lists[0] = <<LastBlock>>
              /\ \A o \in Orders \ {0} : ALLOC.free_lists[o] = <<>>

\* C9 witness: the whole maximal block was handed out as single frames and
\* every one of them has been freed.
C9_Witness ==
    /\ kend = LastBlock
    /\ peak = Pow2(MaxOrder)
    /\ LiveHeads(ALLOC) = {}

----------------------------------------------------------------------------
(* Copy-on-write soundness *)

\* tasks that reference frame f: through a leaf, a table, the root table of a
\* task that still has one, the user stack or the kernel stack
Owners(f) ==
    {u \in Tasks :
        \/ \E v \in VAddrs : TASKS[u].pt[v].p = f
        \/ \E k \in TableKeys : TASKS[u].tables[k] = f
        \/ TASKS[u].state \in {"Used", "Ready"} /\ TASKS[u].user_pt = f
        \/ TASKS[u].user_sp # NoFrame /\ f \in {TASKS[u].user_sp, TASKS[u].user_sp + 1}
        \/ TASKS[u].sp_el1 # NoFrame /\ f \in {TASKS[u].sp_el1, TASKS[u].sp_el1 + 1}}

\* the latest step was a fork that went through
Forked == last.op = "fork" /\ ~panicked

\* child and parent map page v on one frame that is referenced at least twice
SharedLeaf(v) ==
    /\ TASKS[last.nt].pt[v].p = TASKS[last.t].pt[v].p
    /\ ALLOC.pages[TASKS[last.t].pt[v].p].ref_cnt >= 2

\* C5 as written: after fork, every writable leaf of the parent (every mapped
\* page of a PF_W region: program data, mmap, brk and the user stack) is mapped
\* by the child on the same frame, and that frame has ref_cnt >= 2.
C5_EveryWritableLeafShared ==
    Forked => \A v \in VAddrs : TASKS[last.t].pt[v] # NoPte => SharedLeaf(v)

\* C5 amended: after fork, every leaf of the parent's program, mmap and brk
\* regions is mapped by the child on the same frame with ref_cnt >= 2, read-only
\* on both sides; the user stack is copied: the child's stack leaves are
\* writable, on frames of its own with ref_cnt 1 and the parent's contents.
C5_ClonedLeavesShared ==
    Forked =>
      /\ \A v \in VAddrs :
            (v[1] \in CowRegions /\ TASKS[last.t].pt[v] # NoPte) =>
               /\ SharedLeaf(v)
               /\ TASKS[last.t].pt[v].perms = "PR_UR"
               /\ TASKS[last.nt].pt[v].perms = "PR_UR"
      /\ \A i \in {0, 1} :
            /\ TASKS[last.nt].pt[<<"spel0", i>>].p = TASKS[last.nt].user_sp + i
            /\ TASKS[last.t].pt[<<"spel0", i>>].p = TASKS[last.t].user_sp + i
            /\ TASKS[last.nt].user_sp # TASKS[last.t].user_sp
            /\ TASKS[last.nt].pt[<<"spel0", i>>].perms = "PR_PW_UR_UW1"
            /\ ALLOC.pages[TASKS[last.nt].user_sp].ref_cnt = 1
            /\ ALLOC.pages[TASKS[last.t].user_sp].ref_cnt = 1
            /\ mem[TASKS[last.nt].user_sp + i] = mem[TASKS[last.t].user_sp + i]

\* C5 witness: a fork by a task that has a program page and a brk or mmap page
C5_Witness ==
    /\ Forked
    /\ TASKS[last.t].program = 1
    /\ TASKS[last.t].brk_len + TASKS[last.t].mmap_len = 1
    /\ last.t # 0

\* C6: a write fault leaves the writer's leaf writable on a frame with
\* ref_cnt 1 that holds what the writer saw before the fault; no other task's
\* page table or page contents change.
C6_WriteFault ==
    [][(last'.op = "dabt" /\ ~panicked') =>
          LET t  == last'.t
              v  == last'.v
              np == TASKS'[t].pt[v].p
          IN  /\ TASKS'[t].pt[v].perms = "PR_PW_UR_UW1"
              /\ ALLOC'.pages[np].ref_cnt = 1
              /\ mem'[np] = mem[TASKS[t].pt[v].p]
              /\ \A w \in VAddrs \ {v} : TASKS'[t].pt[w] = TASKS[t].pt[w]
              /\ \A u \in Tasks \ {t} :
                    /\ TASKS'[u] = TASKS[u]
                    /\ \A w \in VAddrs :
                          TASKS[u].pt[w] # NoPte =>
                              mem'[TASKS[u].pt[w].p] = mem[TASKS[u].pt[w].p]]_vars

\* C6 witness: a fault on a shared page that holds a written value took the
\* Alloc path
C6_Witness ==
    /\ last.op = "dabt" /\ last.act = "Alloc" /\ ~panicked
    /\ mem[TASKS[last.t].pt[last.v].p] # 0

\* every task of the set is a Zombie
AllZombie(S) == \A u \in S : TASKS[u].state = "Zombie"

----------------------------------------------------------------------------
(* fs.rs: the file pool, the fd arrays of the tasks, dup and close *)

\* the file layer threaded through the operations below; res is the Result of
\* the latest call ("Sleep": the caller waits for a 9P reply), ret the slot
\* alloc_file handed out, closes the File::close calls completed in this step
FsM ==
    [FS |-> FS, files |-> files, fid_bs |-> fid_bs, fop |-> fop, tasks |-> TASKS,
     panic |-> panicked, res |-> "Ok", ret |-> NoFile, closes |-> {}]

\* panic!, unwrap() of an Err or None, a failed assert!
FsPanic(f) == [f EXCEPT !.panic = TRUE, !.res = "Panic"]

\* a system call of task t on fd begins
Enter(f, t, sys, fd) ==
    [f EXCEPT !.fop[t] = [FopNone EXCEPT !.sys = sys, !.fd = fd,
                                         !.slot = f.files[t][fd]]]

\* the slots alloc_file may hand out
FreeFiles(f) == {s \in Slots : f.FS[s].kind = "None"}

\* fs.rs alloc_file: the first slot whose kind is None becomes Used
alloc_file(f) ==
    IF FreeFiles(f) = {} THEN [f EXCEPT !.res = "Err"]
    ELSE [f EXCEPT !.FS[CHOOSE s \in FreeFiles(f) : \A u \in FreeFiles(f) : s <= u].kind
                       = "Used",
                   !.ret = CHOOSE s \in FreeFiles(f) : \A u \in FreeFiles(f) : s <= u,
                   !.res = "Ok"]

\* fs.rs free_file
free_file(f, s) == [f EXCEPT !.FS[s].kind = "None"]

\* fs.rs open_cons on the slot alloc_file returned
cons_install(f, t, fd) ==
    IF f.res # "Ok" THEN FsPanic(f)
    ELSE [f EXCEPT !.FS[f.ret] = [kind |-> "Cons", rc |-> 1, fid |-> 0],
                   !.files[t][fd] = f.ret]

\* sched.rs create_task: task.files[fd] = Some(fs::open_cons().unwrap())
open_cons(f, t, fd) == cons_install(alloc_file(f), t, fd)

\* P9::fid_is_ok
fid_is_ok(f, fid) == fid \in Fids /\ fid \in f.fid_bs

\* P9::alloc_fid().unwrap(): the first clear bit of fid_bs
alloc_fid(f) ==
    IF Fids \ f.fid_bs = {} THEN FsPanic(f)
    ELSE [f EXCEPT !.fid_bs = @ \cup {CHOOSE i \in Fids \ f.fid_bs :
                                          \A j \in Fids \ f.fid_bs : i <= j}]

\* the fid alloc_fid hands out
NextFid(f) == CHOOSE i \in Fids \ f.fid_bs : \A j \in Fids \ f.fid_bs : i <= j

\* P9::free_fid: assert!(fid_is_ok(fid)), then clear the bit
free_fid(f, fid) ==
    IF ~fid_is_ok(f, fid) THEN FsPanic(f) ELSE [f EXCEPT !.fid_bs = @ \ {fid}]

\* File::dup: rc.fetch_add(1) on an AtomicU16
File_dup(f, s) == [f EXCEPT !.FS[s].rc = (@ + 1) % U16]

\* one File::close call that returned: the kind and rc it found, whether its
\* compare_exchange(1, 0) succeeded, the Tclunk messages it sent, its Result
\* and the change of rc it left behind
LogClose(f, t, s, kind, rc0, won, ok) ==
    [f EXCEPT !.res = IF ok THEN "Ok" ELSE "Err",
              !.closes = @ \cup {[kind |-> kind, rc0 |-> rc0, won |-> won,
                                  sent |-> f.fop[t].sent, ok |-> ok,
                                  drc |-> f.fop[t].drc]}]

\* a close that forgets to give the reference back when the clunk failed
close_failed_keep(f, t, s) == LogClose(f, t, s, "P9", 1, TRUE, FALSE)

\* File::close, the P9 arm when p9f.close() returned Err: rc.fetch_add(1)
close_failed(f, t, s) ==
    LogClose([f EXCEPT !.FS[s].rc = (@ + 1) % U16, !.fop[t].drc = @ + 1],
             t, s, "P9", 1, TRUE, FALSE)

\* File::close, the P9 arm when p9f.close() returned Ok: kind = None
close_done(f, t, s) ==
    IF f.panic THEN f
    ELSE LogClose([f EXCEPT !.FS[s].kind = "None"], t, s, "P9", 1, TRUE, TRUE)

\* a close of the last reference that frees the fid without telling the server
clunk_skip(f, t, s) == close_done(free_fid(f, f.FS[s].fid), t, s)

\* p9.rs ops::clunk up to the sleep: Err at once when the fid is not in use,
\* otherwise the Tclunk is published and the caller sleeps
clunk_begin(f, t, s) ==
    IF ~fid_is_ok(f, f.FS[s].fid) THEN close_failed(f, t, s)
    ELSE [f EXCEPT !.res = "Sleep",
                   !.fop[t].pc = "clunk", !.fop[t].slot = s,
                   !.fop[t].fid = f.FS[s].fid, !.fop[t].sent = 1,
                   !.tasks[t].state = "Sleeping"]

\* File::close once compare_exchange(1, 0) succeeded
close_last(f, t, s) ==
    IF f.FS[s].kind = "P9" THEN clunk_begin(f, t, s)
    ELSE IF f.FS[s].kind = "Cons" THEN LogClose(f, t, s, "Cons", 1, TRUE, TRUE)
    ELSE FsPanic(f)

\* File::close when compare_exchange(1, 0) failed: rc.fetch_sub(1)
close_shared(f, t, s) == LogClose(f, t, s, f.FS[s].kind, f.FS[s].rc + 1, FALSE, TRUE)

\* File::close up to its return or to the sleep inside clunk
close_inner(f, t, s) ==
    IF f.FS[s].rc = 0 THEN LogClose(f, t, s, f.FS[s].kind, 0, FALSE, TRUE)
    ELSE IF f.FS[s].rc = 1
    THEN close_last([f EXCEPT !.FS[s].rc = 0, !.fop[t].drc = @ - 1], t, s)
    ELSE close_shared([f EXCEPT !.FS[s].rc = (@ + U16 - 1) % U16, !.fop[t].drc = @ - 1],
                      t, s)

\* fs.rs File::close on slot s, called by task t
File_close(f, t, s) ==
    close_inner([f EXCEPT !.fop[t].drc = 0, !.fop[t].sent = 0], t, s)

\* ops::clunk after the sleep: Rclunk frees the fid, anything else is Err
clunk_end(f, t, ok) ==
    IF ok THEN close_done(free_fid([f EXCEPT !.tasks[t].state = "Ready"], f.fop[t].fid),
                          t, f.fop[t].slot)
    ELSE close_failed([f EXCEPT !.tasks[t].state = "Ready"], t, f.fop[t].slot)

\* fs.rs close after file.close(): Ok clears the fd, Err returns !0
close_ret(f, t, fd) ==
    IF f.res = "Ok" THEN [f EXCEPT !.files[t][fd] = NoFile] ELSE f

\* fs.rs close
fs_close(f, t, fd) ==
    IF f.files[t][fd] = NoFile THEN [f EXCEPT !.res = "NoFd"]
    ELSE close_ret(File_close(f, t, f.files[t][fd]), t, fd)

\* dup3: f.close().unwrap() on the replaced file
dup3_unwrap(f) == IF f.res = "Err" THEN FsPanic(f) ELSE f

\* dup3 once task.files[new_fd] holds the duplicate
dup3_replace(f, t, replaced) ==
    IF replaced = NoFile THEN f ELSE dup3_unwrap(File_close(f, t, replaced))

\* fs.rs dup3
dup3(f, t, old_fd, new_fd) ==
    IF f.files[t][old_fd] = NoFile THEN [f EXCEPT !.res = "NoFd"]
    ELSE IF old_fd = new_fd THEN f
    ELSE dup3_replace([File_dup(f, f.files[t][old_fd])
                          EXCEPT !.files[t][new_fd] = f.files[t][old_fd]],
                      t, f.files[t][new_fd])

\* sched.rs fork: new_task.files[i] = f.dup() for the fds the parent has open;
\* the other entries of the child's slot are left as they are
RECURSIVE fork_files(_, _, _, _)
fork_files(f, t, nt, i) ==
    IF i >= MaxFds THEN f
    ELSE IF f.files[t][i] = NoFile THEN fork_files(f, t, nt, i + 1)
    ELSE fork_files([File_dup(f, f.files[t][i]) EXCEPT !.files[nt][i] = f.files[t][i]],
                    t, nt, i + 1)

\* a fork that starts the child from an empty fd array
fork_files_fresh(f, t, nt, i) ==
    fork_files([f EXCEPT !.files[nt] = [fd \in Fds |-> NoFile]], t, nt, i)

\* sched.rs fork, the file part and the new task's state
fs_fork(f, t, nt) ==
    [fork_files(f, t, nt, 0) EXCEPT !.tasks[nt].state = "Ready",
                                    !.tasks[nt].parent = t]

\* sched.rs free_task: close every open fd (the Result is ignored, the entry
\* stays), then the task becomes a Zombie
RECURSIVE exit_files(_, _, _)
RECURSIVE exit_next(_, _, _)
exit_files(f, t, i) ==
    IF f.panic THEN f
    ELSE IF i >= MaxFds THEN [f EXCEPT !.tasks[t].state = "Zombie", !.res = "Ok"]
    ELSE IF f.files[t][i] = NoFile THEN exit_files(f, t, i + 1)
    ELSE exit_next(File_close([f EXCEPT !.fop[t].fd = i], t, f.files[t][i]), t, i)

exit_next(f, t, i) == IF f.res = "Sleep" THEN f ELSE exit_files(f, t, i + 1)

\* sched.rs exit: pid 0 panics, any other task runs free_task
fs_exit(f, t) == IF t = 0 THEN FsPanic(f) ELSE exit_files(f, t, 0)

\* the fds openat may use
FreeFds(f, t) == {fd \in Fds : f.files[t][fd] = NoFile}

\* p9::open up to the sleep in ops::walk: the fid is allocated, Twalk published
walk_begin(f, t, fd, s) ==
    IF f.panic THEN f
    ELSE [f EXCEPT !.res = "Sleep",
                   !.fop[t].pc = "open", !.fop[t].fd = fd, !.fop[t].slot = s,
                   !.fop[t].fid = NextFid(f),
                   !.fid_bs = @ \cup {NextFid(f)},
                   !.tasks[t].state = "Sleeping"]

\* fs.rs open up to the sleep: alloc_file, then p9::open
open_begin(f, t, fd) ==
    IF f.res # "Ok" THEN f
    ELSE IF Fids \ f.fid_bs = {} THEN FsPanic(f)
    ELSE walk_begin(f, t, fd, f.ret)

\* fs.rs openat: the first fd that is None, then open()
openat(f, t) ==
    IF FreeFds(f, t) = {} THEN [f EXCEPT !.res = "Err"]
    ELSE open_begin(alloc_file(f), t,
                    CHOOSE fd \in FreeFds(f, t) : \A g \in FreeFds(f, t) : fd <= g)

\* fs.rs open / openat after p9::open returned
open_end(f, t, ok) ==
    IF ok
    THEN [f EXCEPT !.FS[f.fop[t].slot] = [kind |-> "P9", rc |-> 1, fid |-> f.fop[t].fid],
                   !.files[t][f.fop[t].fd] = f.fop[t].slot,
                   !.tasks[t].state = "Ready", !.res = "Ok"]
    ELSE [free_file(f, f.fop[t].slot) EXCEPT !.tasks[t].state = "Ready", !.res = "Err"]

\* File::read on a 9P file: ops::read returns Err at once for a fid that is
\* not in use, otherwise Tread is published and the caller sleeps
p9_read(f, t, s) ==
    IF ~fid_is_ok(f, f.FS[s].fid) THEN [f EXCEPT !.res = "Err"]
    ELSE [f EXCEPT !.res = "Sleep", !.fop[t].pc = "rw", !.fop[t].slot = s,
                   !.tasks[t].state = "Sleeping"]

\* fs.rs File::read
File_read(f, t, s) ==
    IF f.FS[s].rc = 0 THEN [f EXCEPT !.res = "Err"]
    ELSE IF f.FS[s].kind = "P9" THEN p9_read(f, t, s)
    ELSE IF f.FS[s].kind = "Cons" THEN f
    ELSE FsPanic(f)

\* fs.rs sys_read
sys_read(f, t, fd) ==
    IF f.files[t][fd] = NoFile THEN [f EXCEPT !.res = "NoFd"]
    ELSE File_read(f, t, f.files[t][fd])

\* File::read after the sleep
read_end(f, t, ok) ==
    [f EXCEPT !.tasks[t].state = "Ready", !.res = IF ok THEN "Ok" ELSE "Err"]

\* fs.rs lseek: File::lseek returns Err for a whence other than SET, CUR, END
lseek(f, t, fd, whence) ==
    IF f.files[t][fd] = NoFile THEN [f EXCEPT !.res = "NoFd"]
    ELSE IF whence \in {0, 1, 2} THEN f
    ELSE [f EXCEPT !.res = "Err"]

----------------------------------------------------------------------------
(* The file system calls of the tasks; a task that waits for a 9P reply lets
   the others run, every other call runs to its end *)

\* the file layer when main.rs has run p9::init (fid 0 is wasted) and no task
\* exists yet
FsNew ==
    [FS |-> [s \in Slots |-> FileZeroed],
     files |-> [t \in Tasks |-> [fd \in Fds |-> NoFile]],
     fid_bs |-> {0},
     fop |-> [t \in Tasks |-> FopNone],
     tasks |-> [t \in Tasks |-> TaskZeroed],
     panic |-> FALSE, res |-> "Ok", ret |-> NoFile, closes |-> {}]

\* sched.rs create_task: the console on fds 0, 1 and 2, then State::Ready
fs_create_task(f, t) ==
    [open_cons(open_cons(open_cons(f, t, 0), t, 1), t, 2)
        EXCEPT !.tasks[t].state = "Ready"]

\* what the latest system call step did: the call when it is one of close, read
\* and lseek on an fd that is in use, its Result, the File::close calls it
\* completed, whether the fd still refers to the slot it referred to when the
\* call began, and the change of that slot's rc the call itself made
FsLast(f, t) ==
    [op |-> IF f.fop[t].sys \in {"close", "read", "lseek"} THEN f.fop[t].sys ELSE "other",
     ret |-> f.res,
     closes |-> f.closes,
     same |-> f.fop[t].slot # NoFile /\ f.files[t][f.fop[t].fd] = f.fop[t].slot,
     drc |-> f.fop[t].drc]

InitFs ==
    /\ kend = Pow2(MaxOrder)
    /\ ALLOC = AllocatorInit(kend)
    /\ peak = 0
    /\ mem = [f \in Frames |-> 0]
    /\ cowlog = {}
    /\ SchedIdle
    /\ P9Idle
    /\ FS = fs_create_task(FsNew, 0).FS
    /\ files = fs_create_task(FsNew, 0).files
    /\ fid_bs = fs_create_task(FsNew, 0).fid_bs
    /\ fop = fs_create_task(FsNew, 0).fop
    /\ fcalls = 0
    /\ TASKS = fs_create_task(FsNew, 0).tasks
    /\ panicked = fs_create_task(FsNew, 0).panic
    /\ last = FsLast(Enter(FsNew, 0, "none", 0), 0)
    /\ RestIdle

\* the file layer after a step of task t
FsInstall(f, t) ==
    /\ FS' = f.FS
    /\ files' = f.files
    /\ fid_bs' = f.fid_bs
    /\ fop' = IF f.res = "Sleep" THEN f.fop ELSE [f.fop EXCEPT ![t] = FopNone]
    /\ TASKS' = f.tasks
    /\ panicked' = f.panic
    /\ last' = FsLast(f, t)
    /\ fcalls' = IF fop[t].pc = "user" THEN fcalls + 1 ELSE fcalls
    /\ UNCHANGED <<varsPm, mem, cowlog, varsSched, varsP9, varsRest>>

\* task t is in user mode and may enter the kernel
InUser(t) ==
    /\ ~panicked
    /\ TASKS[t].state = "Ready"
    /\ fop[t].pc = "user"
    /\ fcalls < MaxFsCalls

\* task t sleeps in the 9P call pc
Asleep(t, pc) == ~panicked /\ TASKS[t].state = "Sleeping" /\ fop[t].pc = pc

Openat(t) ==
    /\ InUser(t)
    /\ FsInstall(openat(Enter(FsM, t, "openat", 0), t), t)

OpenReply(t, ok) ==
    /\ Asleep(t, "open")
    /\ FsInstall(open_end(FsM, t, ok), t)

Close(t, fd) ==
    /\ InUser(t)
    /\ FsInstall(fs_close(Enter(FsM, t, "close", fd), t, fd), t)

\* the caller of File::close goes on after the clunk
clunk_resume(f, t) ==
    IF f.fop[t].sys = "close" THEN close_ret(f, t, f.fop[t].fd)
    ELSE IF f.fop[t].sys = "dup3" THEN dup3_unwrap(f)
    ELSE exit_files(f, t, f.fop[t].fd + 1)

ClunkReply(t, ok) ==
    /\ Asleep(t, "clunk")
    /\ FsInstall(clunk_resume(clunk_end(FsM, t, ok), t), t)

Dup3(t, old_fd, new_fd) ==
    /\ InUser(t)
    /\ FsInstall(dup3(Enter(FsM, t, "dup3", new_fd), t, old_fd, new_fd), t)

FsFork(t) ==
    /\ InUser(t)
    /\ FreeSlots(FsM) # {}
    /\ FsInstall(fs_fork(Enter(FsM, t, "fork", 0), t, FirstFree(FsM)), t)

FsExit(t) ==
    /\ InUser(t)
    /\ FsInstall(fs_exit(Enter(FsM, t, "exit", 0), t), t)

\* sched.rs wait when a child is a Zombie: the slot becomes Free
FsWait(t) ==
    /\ InUser(t)
    /\ \E c \in Children(t) : TASKS[c].state = "Zombie"
    /\ FsInstall([Enter(FsM, t, "wait", 0)
                     EXCEPT !.tasks[FirstZombie(t)].state = "Free",
                            !.tasks[FirstZombie(t)].parent = NoTask], t)

SysRead(t, fd) ==
    /\ InUser(t)
    /\ FsInstall(sys_read(Enter(FsM, t, "read", fd), t, fd), t)

ReadReply(t, ok) ==
    /\ Asleep(t, "rw")
    /\ FsInstall(read_end(FsM, t, ok), t)

Lseek(t, fd, whence) ==
    /\ InUser(t)
    /\ FsInstall(lseek(Enter(FsM, t, "lseek", fd), t, fd, whence), t)

NextFs ==
    \/ \E t \in Tasks : Openat(t)
    \/ \E t \in Tasks, ok \in BOOLEAN : OpenReply(t, ok)
    \/ \E t \in Tasks, fd \in Fds : Close(t, fd)
    \/ \E t \in Tasks, ok \in BOOLEAN : ClunkReply(t, ok)
    \/ \E t \in Tasks, old_fd \in Fds, new_fd \in Fds : Dup3(t, old_fd, new_fd)
    \/ \E t \in Tasks : FsFork(t)
    \/ \E t \in Tasks : FsExit(t)
    \/ \E t \in Tasks : FsWait(t)
    \/ \E t \in Tasks, fd \in Fds : SysRead(t, fd)
    \/ \E t \in Tasks, ok \in BOOLEAN : ReadReply(t, ok)
    \/ \E t \in Tasks, fd \in Fds, whence \in {0, 3} : Lseek(t, fd, whence)

SpecFs == InitFs /\ [][NextFs]_vars


----------------------------------------------------------------------------
(* Reference counts of the file pool *)

\* no task is inside a file system call
Quiescent == ~panicked /\ \A t \in Tasks : fop[t].pc = "user"

\* the tasks that exist: their slot is neither Free nor a Zombie
LiveTasks == {t \in Tasks : TASKS[t].state \in {"Ready", "Sleeping"}}

\* the entries of the fd arrays of the existing tasks that refer to slot s
FdRefs(s) == {e \in LiveTasks \X Fds : files[e[1]][e[2]] = s}

\* C11: at every quiescent point, the ref_cnt of each file slot equals the
\* number of fd-array entries, over all tasks, that refer to the slot.
C11_RefCntIsFdCount ==
    Quiescent => \A s \in Slots : FS[s].rc = Cardinality(FdRefs(s))

\* C12: after every file operation, every slot of the pool has ref_cnt > 0
\* exactly when its kind is not None.
C12_RcPositiveIffKind ==
    Quiescent => \A s \in Slots : (FS[s].rc > 0) <=> (FS[s].kind # "None")

\* the File::close calls on 9P files that the latest step completed
P9Closes == {c \in last.closes : c.kind = "P9"}

\* C13 as stated: a close that takes a 9P file's ref_cnt from 1 to 0 issues
\* exactly one clunk, and a close that leaves ref_cnt positive issues none.
C13_ClunkIffLast ==
    \A c \in P9Closes :
        /\ (c.rc0 = 1 /\ c.rc0 + c.drc = 0) => c.sent = 1
        /\ (c.rc0 + c.drc > 0) => c.sent = 0

\* C13, amended: a close that finds ref_cnt above 1 issues no clunk; a close
\* that finds it 1 issues at most one, exactly one when it returns Ok with the
\* count at 0, and when the clunk fails it returns Err with the count back at 1.
C13_ClunkOnLast ==
    \A c \in P9Closes :
        /\ c.sent \in {0, 1}
        /\ (c.won /\ c.ok) => (c.sent = 1 /\ c.rc0 + c.drc = 0)
        /\ ~c.won => (c.sent = 0 /\ c.ok)
        /\ (c.won /\ ~c.ok) => c.rc0 + c.drc = 1

\* a close of the last reference of a 9P file sent its clunk and returned Ok
C13_Witness ==
    /\ \E c \in P9Closes : c.won /\ c.ok /\ c.sent = 1
    /\ fcalls >= 2

\* C14: when read, lseek or a close whose clunk fails returns Err, the caller's
\* fd refers to the same file as before the call and the call has left the
\* file's ref_cnt as it found it.
C14_ErrKeepsFd ==
    (last.op \in {"close", "read", "lseek"} /\ last.ret = "Err") =>
        (last.same /\ last.drc = 0)

\* a close returned Err after the server refused its clunk
C14_Witness ==
    /\ last.op = "close"
    /\ last.ret = "Err"
    /\ \E c \in P9Closes : c.won /\ c.sent = 1 /\ ~c.ok

----------------------------------------------------------------------------
(* vm.rs: map_v2p_4k_inner, walk_to_l3, v2p_pt, unmap_4k_inner on word-level *)
(* tables                                                                    *)

\* the page tables threaded through one operation: at is the address of the
\* table the walk has reached, res the Result so far, val the value of Ok
VmM ==
    [mem |-> VMS.mem, nxt |-> VMS.nxt, panic |-> VMS.panic,
     at |-> FrameAddr(0), inner |-> "Ok", res |-> "Ok", val |-> {}]

\* start a walk at the table in frame root
VmAt(m, root) == [m EXCEPT !.at = FrameAddr(root), !.res = "Ok", !.val = {}]

\* PmWrap::new(pm, ..): a window on the frame at pm & PHY_MASK
PmWrap_new(m, pm) ==
    IF Below1G(pm \cap PHY_MASK) THEN [m EXCEPT !.res = "Inval"]
    ELSE [m EXCEPT !.at = pm \cap PHY_MASK]

\* pt_alloc_if_0_2, the entry is 0: pm::alloc a frame (unreachable!() when
\* there is none), store ptr | 3, zero the new table
vm_alloc_table(m, idx) ==
    IF m.nxt >= MaxPtFrames THEN [m EXCEPT !.panic = TRUE, !.res = "Panic"]
    ELSE [m EXCEPT !.mem[m.at][idx] = FrameAddr(m.nxt) \cup TABLE_BITS,
                   !.mem[FrameAddr(m.nxt)] = TableZeroed,
                   !.at = FrameAddr(m.nxt),
                   !.nxt = m.nxt + 1]

\* map_err(|_| Error::Alloc) on the Result of pt_alloc_if_0_2
vm_map_err_alloc(m) == IF m.res = "Inval" THEN [m EXCEPT !.res = "Alloc"] ELSE m

\* vm::pt_alloc_if_0_2 on entry idx of the table the walk is at
vm_pt_alloc_if_0_2(m, idx) ==
    IF m.panic \/ m.res # "Ok" THEN m
    ELSE IF m.mem[m.at][idx] = {} THEN vm_alloc_table(m, idx)
    ELSE vm_map_err_alloc(PmWrap_new(m, m.mem[m.at][idx]))

\* map_v2p_4k_inner at the L3 table, the entry is overwritten: the write is
\* left out
vm_write_leaf_keep(m, idx, p, perms, overw) ==
    IF m.panic \/ m.res # "Ok" THEN m
    ELSE IF m.mem[m.at][idx] # {} THEN [m EXCEPT !.res = "Exists"]
    ELSE [m EXCEPT !.mem[m.at][idx] = p \cup perms \cup LEAF_BITS]

\* map_v2p_4k_inner at the L3 table: Exists when the entry is not 0, written
\* all the same when overw is set
vm_write_leaf(m, idx, p, perms, overw) ==
    IF m.panic \/ m.res # "Ok" THEN m
    ELSE IF m.mem[m.at][idx] # {} /\ ~overw THEN [m EXCEPT !.res = "Exists"]
    ELSE [m EXCEPT !.mem[m.at][idx] = p \cup perms \cup LEAF_BITS,
                   !.res = IF m.mem[m.at][idx] # {} THEN "Exists" ELSE "Ok"]

\* vm::map_v2p_4k_inner(l0_pt, v, p, perms, overw, ncb)
vm_map_v2p_4k_inner(m, root, v, p, perms, overw) ==
    vm_write_leaf(
        vm_pt_alloc_if_0_2(
            vm_pt_alloc_if_0_2(
                vm_pt_alloc_if_0_2(VmAt(m, root), Index(v, L0_SHIFT)),
                Index(v, L1_SHIFT)),
            Index(v, L2_SHIFT)),
        Index(v, L3_SHIFT), p, perms, overw)

\* sched.rs map_ovwr for one page: Err(Exists) falls through to Ok(v), any
\* other Result of map_v2p_4k_inner is returned as it is
vm_map_ovwr_ret(m) ==
    [m EXCEPT !.inner = m.res, !.res = IF m.res = "Exists" THEN "Ok" ELSE m.res]

\* sched.rs map_ovwr(l0_pt, v, p, 1, perms)
vm_map_ovwr(m, root, v, p, perms) ==
    vm_map_ovwr_ret(vm_map_v2p_4k_inner(m, root, v, p, perms, TRUE))

\* one level of walk_to_l3: Err(Inval) when the entry is 0
vm_walk_step(m, idx) ==
    IF m.res # "Ok" THEN m
    ELSE IF m.mem[m.at][idx] = {} THEN [m EXCEPT !.res = "Inval"]
    ELSE PmWrap_new(m, m.mem[m.at][idx])

\* vm::walk_to_l3(l0_pt, v)
vm_walk_to_l3(m, root, v) ==
    vm_walk_step(
        vm_walk_step(
            vm_walk_step(VmAt(m, root), Index(v, L0_SHIFT)),
            Index(v, L1_SHIFT)),
        Index(v, L2_SHIFT))

\* v2p_pt after the walk with a mask that keeps the attribute bits 6 .. 11
v2p_read_wide(m, v) ==
    IF m.res # "Ok" THEN m
    ELSE [m EXCEPT !.val = (m.mem[m.at][Index(v, L3_SHIFT)] \cap (6 .. 47))
                           \cup (v \cap OFFT_MASK)]

\* v2p_pt after the walk: Ok((*ptr & PHY_MASK) | (v & 0xfff))
v2p_read(m, v) ==
    IF m.res # "Ok" THEN m
    ELSE [m EXCEPT !.val = (m.mem[m.at][Index(v, L3_SHIFT)] \cap PHY_MASK)
                           \cup (v \cap OFFT_MASK)]

\* vm::v2p_pt(l0_pt, v, None)
v2p_pt(m, root, v) == v2p_read(vm_walk_to_l3(m, root, v), v)

\* unmap_4k_inner after the walk: the entry becomes 0
unmap_clear(m, v) ==
    IF m.res # "Ok" THEN m
    ELSE [m EXCEPT !.mem[m.at][Index(v, L3_SHIFT)] = {}]

\* vm::unmap_4k_inner(l0_pt, v)
unmap_4k_inner(m, root, v) == unmap_clear(vm_walk_to_l3(m, root, v), v)

\* the L3 entry of v under root, 0 when the walk does not reach an L3 table
LeafWord(m, v) == IF m.res # "Ok" THEN {} ELSE m.mem[m.at][Index(v, L3_SHIFT)]
Leaf(m, root, v) == LeafWord(vm_walk_to_l3(m, root, v), v)

\* the page of an address
PageOf(v) == v \ OFFT_MASK

InitVm ==
    /\ kend = Pow2(MaxOrder)
    /\ ALLOC = AllocatorInit(kend)
    /\ peak = 0
    /\ CowIdle
    /\ SchedIdle
    /\ P9Idle
    /\ FsIdle
    /\ VmIdle
    /\ DabtIdle
    /\ PollIdle
    /\ KernIdle

\* the state after an operation that left the tables as m
VmInstall(m, op, root, v, p, perms, overw) ==
    /\ VMS' = [mem |-> m.mem, nxt |-> m.nxt, panic |-> m.panic]
    /\ vmlast' = [op |-> op, root |-> root, v |-> v, p |-> p, perms |-> perms,
                  overw |-> overw,
                  inner |-> IF op = "map_ovwr" THEN m.inner ELSE m.res,
                  res |-> m.res, val |-> m.val,
                  old |-> Leaf(VmM, root, v), new |-> Leaf(m, root, v)]
    /\ vmaps' = IF op \in {"map", "map_ovwr"}
                THEN IF m.res = "Ok" \/ (m.res = "Exists" /\ overw)
                     THEN {e \in vmaps : e.root # root \/ e.v # v}
                              \cup {[root |-> root, v |-> v, p |-> p]}
                     ELSE vmaps
                ELSE IF op = "unmap" /\ m.res = "Ok"
                THEN {e \in vmaps : e.root # root \/ e.v # v}
                ELSE vmaps
    /\ vmcalls' = vmcalls + 1
    /\ UNCHANGED <<varsPm, varsCow, varsSched, varsP9, varsFs, varsDabt, varsPoll, varsKern>>

VmReady == ~VMS.panic /\ vmcalls < MaxVmCalls

\* sched.rs map / vm.rs map_v2p_4k of one page: overw is not set
VmMap(root, v, p, perms) ==
    /\ VmReady
    /\ VmInstall(vm_map_v2p_4k_inner(VmM, root, v, p, perms, FALSE),
                 "map", root, v, p, perms, FALSE)

\* sched.rs map_ovwr of one page, as dabt_handler calls it: overw is set
VmMapOvwr(root, v, p, perms) ==
    /\ VmReady
    /\ VmInstall(vm_map_ovwr(VmM, root, v, p, perms),
                 "map_ovwr", root, v, p, perms, TRUE)

\* sched.rs unmap of one page
VmUnmap(root, v) ==
    /\ VmReady
    /\ VmInstall(unmap_4k_inner(VmM, root, v), "unmap", root, v, {}, {}, FALSE)

\* v2p_pt of the address v
VmTranslate(root, v) ==
    /\ VmReady
    /\ VmInstall(v2p_pt(VmM, root, v), "translate", root, v, {}, {}, FALSE)

NextVm ==
    \/ \E root \in Roots, v \in VPages, p \in DataPages,
          perms \in {PR_UR, PR_PW_UR_UW1} :
          VmMap(root, v, p, perms)
    \/ \E root \in Roots, v \in VPages, p \in DataPages :
          VmMapOvwr(root, v, p, PR_PW_UR_UW1)
    \/ \E root \in Roots, v \in VPages : VmUnmap(root, v)
    \/ \E root \in Roots, v \in VPages, o \in Offsets : VmTranslate(root, v \cup o)

SpecVm == InitVm /\ [][NextVm]_vars

----------------------------------------------------------------------------
(* Claims about the page tables *)

\* C15: after a successful map of v to p under a root, v2p_pt of v under that
\* root returns p (and p | offset for an address inside the page), for both
\* roots, until v is unmapped or mapped again.
C15_TranslateAfterMap ==
    \A e \in vmaps : \A o \in Offsets :
        /\ v2p_pt(VmM, e.root, e.v \cup o).res = "Ok"
        /\ v2p_pt(VmM, e.root, e.v \cup o).val = e.p \cup o

\* a translate of an address that a successful map put under the second root
\* returned the frame
C15_Witness ==
    /\ vmlast.op = "translate"
    /\ vmlast.root = 1
    /\ vmlast.res = "Ok"
    /\ \E e \in vmaps : /\ e.root = 1
                        /\ e.v = PageOf(vmlast.v)
                        /\ vmlast.val = e.p \cup (vmlast.v \cap OFFT_MASK)
                        /\ e.p # {}

\* C16 as stated: onto a non-zero L3 entry, a map without overwrite fails with
\* Exists and leaves the entry; with overwrite set map_v2p_4k_inner reports
\* success and the entry becomes p | perms | 0x403.
C16_OverwriteReportsOk ==
    (vmlast.op \in {"map", "map_ovwr"} /\ vmlast.old # {}) =>
        IF vmlast.overw
        THEN /\ vmlast.inner = "Ok"
             /\ vmlast.new = vmlast.p \cup vmlast.perms \cup LEAF_BITS
        ELSE /\ vmlast.inner = "Exists"
             /\ vmlast.new = vmlast.old

\* C16 amended: onto a non-zero L3 entry, map_v2p_4k_inner without overwrite
\* returns Exists and leaves the entry; with overwrite it writes
\* p | perms | 0x403 and still returns Exists, which map_ovwr reports as Ok.
C16_OverwriteReportsExists ==
    (vmlast.op \in {"map", "map_ovwr"} /\ vmlast.old # {}) =>
        /\ vmlast.inner = "Exists"
        /\ IF vmlast.overw
           THEN /\ vmlast.res = "Ok"
                /\ vmlast.new = vmlast.p \cup vmlast.perms \cup LEAF_BITS
           ELSE /\ vmlast.res = "Exists"
                /\ vmlast.new = vmlast.old

\* a map_ovwr replaced a leaf by a different one
C16_Witness ==
    /\ vmlast.op = "map_ovwr"
    /\ vmlast.old # {}
    /\ vmlast.new # vmlast.old
    /\ vmlast.inner = "Exists"
    /\ vmlast.res = "Ok"

\* C17: v2p_pt returns Err(Inval) for every address whose page has no leaf
\* mapping under the root, a page that was mapped and unmapped included.
C17_UnmappedIsInval ==
    \A root \in Roots, v \in VPages :
        (\A e \in vmaps : e.root # root \/ e.v # v) =>
            v2p_pt(VmM, root, v).res = "Inval"

----------------------------------------------------------------------------
(* sched.rs: find_region and dabt_handler on Region records *)

\* Region::has
Region_has(r, v) == v >= r.vaddr /\ v < r.vaddr + r.len

\* Region::blksize() / 4096 = 1 << granule
Region_blksize(r) == Pow2(r.granule)

\* pm.rs align_b(n, t) for a power of two t
align_b(n, t) == n - (n % t)

\* flags & f > 0 for a one-bit f
HasFlag(flags, f) == (flags \div f) % 2 = 1

\* task.program.iter().find(|r| r.has(v))
ProgramFind(tk, v) ==
    IF \E i \in DOMAIN tk.program : Region_has(tk.program[i], v)
    THEN tk.program[CHOOSE i \in DOMAIN tk.program :
                        /\ Region_has(tk.program[i], v)
                        /\ \A j \in DOMAIN tk.program :
                              Region_has(tk.program[j], v) => i <= j]
    ELSE NoRegion

\* sched.rs find_region: brk, then mmap (the arm returns task.brk), then the
\* program list
find_region_rec(tk, v) ==
    IF Region_has(tk.brk, v) THEN tk.brk
    ELSE IF Region_has(tk.mmap, v) THEN tk.brk
    ELSE ProgramFind(tk, v)

\* the regions of the task that dabt_handler is to look at
DabtRegions(tk) == {tk.brk, tk.mmap} \cup {tk.program[i] : i \in DOMAIN tk.program}

\* the leaf of the faulting block after map_ovwr(.., PR_PW_UR_UW1)
dabt_remap(tk, block) ==
    IF tk.pt[block] = "none" THEN [tk EXCEPT !.panic = TRUE]
    ELSE [tk EXCEPT !.pt[block] = "PR_PW_UR_UW1"]

\* the panic! at the end of dabt_handler
dabt_fatal(tk) == [tk EXCEPT !.panic = TRUE]

\* dabt_handler that does not look at the flags of the region
dabt_handler_noflags(tk, v) ==
    IF find_region_rec(tk, v) = NoRegion THEN dabt_fatal(tk)
    ELSE dabt_remap(tk, align_b(v, Region_blksize(find_region_rec(tk, v))))

\* sched.rs dabt_handler with FAR_EL1 = v: a region with PF_W gets the block
\* remapped PR_PW_UR_UW1 (Remap and Alloc arms alike) and the task resumes,
\* everything else ends in panic!
dabt_handler_rec(tk, v) ==
    IF find_region_rec(tk, v) = NoRegion THEN dabt_fatal(tk)
    ELSE IF ~HasFlag(find_region_rec(tk, v).flags, PF_W) THEN dabt_fatal(tk)
    ELSE dabt_remap(tk, align_b(v, Region_blksize(find_region_rec(tk, v))))

\* Region::alloc of one page followed by map(.., perms) in brk / mmap
dabt_grow(tk, r, perms) ==
    IF r = "brk"
    THEN [tk EXCEPT !.pt[tk.brk.vaddr + tk.brk.len] = perms, !.brk.len = @ + 1]
    ELSE [tk EXCEPT !.pt[tk.mmap.vaddr + tk.mmap.len] = perms, !.mmap.len = @ + 1]

\* sched.rs mmap: the leaf permissions for prot 1, 3 and 5
MmapPerms(prot) ==
    IF prot = 1 THEN "PR_UR" ELSE IF prot = 3 THEN "PR_PW_UR_UW1" ELSE "PR_UR_UX"

\* the parent's leaves after fork: clone_region rewrites every block of the
\* program list, brk and mmap with the permissions of the region's flags; the
\* user stack is copied and stays as it is
dabt_fork(tk) ==
    [tk EXCEPT !.pt = [v \in DabtPages |->
        IF \E r \in DabtRegions(tk) : Region_has(r, v)
        THEN ClonePerms((CHOOSE r \in DabtRegions(tk) : Region_has(r, v)).flags)
        ELSE tk.pt[v]]]

InitDabt ==
    /\ kend = Pow2(MaxOrder)
    /\ ALLOC = AllocatorInit(kend)
    /\ peak = 0
    /\ CowIdle
    /\ SchedIdle
    /\ P9Idle
    /\ FsIdle
    /\ VmIdle
    /\ DabtIdle
    /\ PollIdle
    /\ KernIdle

DabtInstall(tk, op, v, sel) ==
    /\ DT' = tk
    /\ dlast' = [op |-> op, v |-> v, sel |-> sel,
                 outcome |-> IF tk.panic THEN "panic" ELSE "resumed",
                 before |-> IF v \in DabtPages THEN DT.pt[v] ELSE "none",
                 after |-> IF v \in DabtPages THEN tk.pt[v] ELSE "none"]
    /\ UNCHANGED <<varsPm, varsCow, varsSched, varsP9, varsFs, varsVm, varsPoll, varsKern>>

\* the brk system call growing the heap by one page
DabtBrk ==
    /\ ~DT.panic
    /\ DT.brk.len < MaxRegionPages
    /\ DabtInstall(dabt_grow(DT, "brk", "PR_PW_UR_UW1"), "brk", 0, NoRegion)

\* the mmap system call for one anonymous page
DabtMmap(prot) ==
    /\ ~DT.panic
    /\ DT.mmap.len < MaxRegionPages
    /\ DabtInstall(dabt_grow(DT, "mmap", MmapPerms(prot)), "mmap", 0, NoRegion)

\* the fork system call, seen from the parent
DabtFork ==
    /\ ~DT.panic
    /\ DabtInstall(dabt_fork(DT), "fork", 0, NoRegion)

\* a user access the leaf of its page does not allow: a store to a page that
\* is not writable, or any access to a page without a leaf
DabtFault(v) ==
    /\ ~DT.panic
    /\ v \in DabtPages => DT.pt[v] # "PR_PW_UR_UW1"
    /\ DabtInstall(dabt_handler_rec(DT, v), "dabt", v, find_region_rec(DT, v))

NextDabt ==
    \/ DabtBrk
    \/ \E prot \in {1, 3, 5} : DabtMmap(prot)
    \/ DabtFork
    \/ \E v \in FaultPages : DabtFault(v)

SpecDabt == InitDabt /\ [][NextDabt]_vars

----------------------------------------------------------------------------
(* Claims about the data-abort handler *)

\* the regions of the program list, brk and mmap that contain v before the fault
\* (regions do not shrink, and a region that grows does not reach v later: the
\* handler changes no region)
Containing(v) == {r \in DabtRegions(DT) : Region_has(r, v)}

\* C18: for every fault address that lies in a program, brk or mmap region of
\* the task, the region dabt_handler selects is the region that contains it.
C18_SelectsContaining ==
    (dlast.op = "dabt" /\ Containing(dlast.v) # {}) => dlast.sel \in Containing(dlast.v)

\* C19: a data abort at an address that no program, brk or mmap region
\* contains, or whose region lacks PF_W, ends in panic, and the leaf of the
\* page is left as it was.
C19_FatalFault ==
    (/\ dlast.op = "dabt"
     /\ \A r \in Containing(dlast.v) : ~HasFlag(r.flags, PF_W)) =>
        /\ dlast.outcome = "panic"
        /\ dlast.after = dlast.before

\* a store to the read-only segment of the program, by a task that has a
\* heap, was fatal
C19_Witness ==
    /\ dlast.op = "dabt"
    /\ \E r \in Containing(dlast.v) : r.flags = PF_R
    /\ dlast.before = "PR_UR"
    /\ dlast.outcome = "panic"
    /\ DT.brk.len > 0

----------------------------------------------------------------------------
(* fs.rs ppoll with a timeout on a console that has no input, timer.rs       *)

\* the timeouts user code passes: 20 ms and 50 ms
PollTimeouts == {[sec |-> 0, nsec |-> 20000000], [sec |-> 0, nsec |-> 50000000]}

\* rtc.rs KernelTimespec::millis
millis(ts) == (ts.sec * 100) + (ts.nsec \div 10000000)

\* the ppoll call and the timer as one record
PollM == [po |-> PO, tk |-> TICK]

\* Wq::add: tasks[count] = Some(task), an index past the array panics
Wq_add_cons(k) ==
    IF k.po.cons_count >= WQ_LEN THEN [k EXCEPT !.po.panic = TRUE]
    ELSE [k EXCEPT !.po.cons_count = @ + 1]

\* timer::add2wait
add2wait(k) ==
    IF k.po.panic THEN k
    ELSE IF k.tk.count >= WQ_LEN THEN [k EXCEPT !.po.panic = TRUE]
    ELSE [k EXCEPT !.tk.count = @ + 1]

\* fs.rs check_events for one Pollfd with events = POLL::IN on an open console
\* whose buffer is empty: the task is added to the console's wait queue and,
\* with a timeout, to the timer's; no event
check_events(k, timer_wait) ==
    IF timer_wait THEN [add2wait(Wq_add_cons(k)) EXCEPT !.po.n = 0, !.po.checks = @ + 1]
    ELSE [Wq_add_cons(k) EXCEPT !.po.n = 0, !.po.checks = @ + 1]

\* the closure of ppoll after check_events with a deadline one tick earlier
poll_deadline_ge(k) ==
    IF k.po.panic THEN k
    ELSE [k EXCEPT !.po.timed_out = (k.tk.ticks - k.po.start >= millis(k.po.ts))]

\* the closure of ppoll after check_events: read_tick() - start > ts.millis()
poll_deadline(k) ==
    IF k.po.panic THEN k
    ELSE [k EXCEPT !.po.timed_out = (k.tk.ticks - k.po.start > millis(k.po.ts))]

\* sleep_if and the loop of ppoll after the closure returned: Sleeping when it
\* returned true, else the loop ends (n > 0 or timed_out) and ppoll returns n
poll_sleep_or_return(k) ==
    IF k.po.panic THEN k
    ELSE IF k.po.n = 0 /\ ~k.po.timed_out THEN [k EXCEPT !.po.pc = "Sleeping"]
    ELSE [k EXCEPT !.po.pc = "done", !.po.ret = k.po.n]

\* one round of the loop of ppoll
poll_round(k) == poll_sleep_or_return(poll_deadline(check_events(k, TRUE)))

\* ppoll up to the first sleep_if: start = read_tick()
ppoll(k, ts) ==
    poll_round([k EXCEPT !.po.ts = ts, !.po.start = k.tk.ticks,
                         !.po.timed_out = FALSE, !.po.checks = 0, !.po.late = FALSE])

\* Wq::wake_all of the timer's queue: a Sleeping task on it becomes Ready;
\* a task that is still Ready from the tick before has missed a round
wake_all(k) ==
    [k EXCEPT !.tk.count = 0,
              !.po.pc = IF k.po.pc = "Sleeping" /\ k.tk.count > 0 THEN "Ready" ELSE k.po.pc,
              !.po.late = k.po.late \/ k.po.pc = "Ready"]

\* timer.rs handle_tik on CPU 0
handle_tik(k) == wake_all([k EXCEPT !.tk.ticks = @ + 1])

InitPoll ==
    /\ kend = Pow2(MaxOrder)
    /\ ALLOC = AllocatorInit(kend)
    /\ peak = 0
    /\ CowIdle
    /\ SchedIdle
    /\ P9Idle
    /\ FsIdle
    /\ VmIdle
    /\ DabtIdle
    /\ PollIdle
    /\ KernIdle

PollInstall(k) ==
    /\ PO' = k.po
    /\ TICK' = k.tk
    /\ UNCHANGED <<varsPm, varsCow, varsSched, varsP9, varsFs, varsVm, varsDabt, varsKern>>

\* the task calls ppoll(&pfd, 1, &ts) with pfd = {console, POLLIN}
Ppoll(ts) ==
    /\ PO.pc = "user" /\ ~PO.panic
    /\ PollInstall(ppoll(PollM, ts))

\* the scheduler runs the task woken by a tick: sched() returns in sleep_if
\* and the loop of ppoll goes round
PollRun ==
    /\ PO.pc = "Ready" /\ ~PO.panic
    /\ PollInstall(poll_round(PollM))

\* ppoll has returned to user mode
PollReturn ==
    /\ PO.pc = "done"
    /\ PollInstall([PollM EXCEPT !.po.pc = "user"])

\* the timer interrupt: taken in user mode or in the scheduler's loop, never
\* between the last round of ppoll and its return (IRQs are masked in the kernel)
HandleTik ==
    /\ ~PO.panic
    /\ PO.pc # "done"
    /\ TICK.ticks < MaxTicks
    /\ PollInstall(handle_tik(PollM))

NextPoll ==
    \/ \E ts \in PollTimeouts : Ppoll(ts)
    \/ PollRun
    \/ PollReturn
    \/ HandleTik

SpecPoll == InitPoll /\ [][NextPoll]_vars

----------------------------------------------------------------------------
(* Claims about ppoll *)

\* ticks between the entry of ppoll and now
Elapsed == TICK.ticks - PO.start

\* ppoll with a timeout of 50 ms has just returned
Returned50 == PO.pc = "done" /\ PO.ts = [sec |-> 0, nsec |-> 50000000]

----------------------------------------------------------------------------
(* sched.rs sleep, sleep_if, wakeup, Wq, yild, scheduler; timer.rs handle_tik. *)
(* Exceptions are taken with interrupts masked and nothing unmasks them in     *)
(* the kernel but the top of the loop of scheduler(): an interrupt handler runs*)
(* while a task is in user mode or at the top of that loop.                    *)

\* the task the CPU runs
SlCur == SL.cpu.task_idx

\* the task the CPU runs is in the kernel at pc
SlAt(pc) ==
    /\ ~SL.panic
    /\ SL.cpu.mode = "kernel"
    /\ SlCur # NoTask
    /\ SL.pc[SlCur] = pc

\* the task the CPU runs is in user mode
SlUser ==
    /\ ~SL.panic
    /\ SL.cpu.mode = "user"

\* interrupts that are also taken while a task executes kernel code
IrqOpen_kernel ==
    /\ ~SL.panic
    /\ SL.cpu.mode \in {"user", "kernel", "scheduler"}

\* irq_handler can be entered: EL0, or between pstate_i_clr and pstate_i_set in scheduler()
IrqOpen ==
    /\ ~SL.panic
    /\ \/ SL.cpu.mode = "user"
       \/ SL.cpu.mode = "scheduler" /\ SL.cpu.i = 0

\* Frame::el of the frame irq_handler gets: the exception level interrupted
FrameEl == IF SL.cpu.mode = "user" THEN 0 ELSE 1

\* the tasks a wait queue holds
Registered(w) == {t \in SlTasks : w.tasks[t] > 0}

\* the entries of tasks 0 .. t
RECURSIVE Wq_count_to(_, _)
Wq_count_to(w, t) == IF t < 0 THEN 0 ELSE w.tasks[t] + Wq_count_to(w, t - 1)

\* Wq::count
Wq_count(w) == Wq_count_to(w, NSlp - 1)

\* the locals of a call die when it returns to user mode
Return(k, t) ==
    [k EXCEPT !.pc[t] = "user", !.cpu.mode = "user", !.cond[t] = FALSE, !.n[t] = 0,
              !.start[t] = 0, !.tw[t] = FALSE, !.arg[t] = NoChan]

\* sched(): panic!("running") for a Running task; switch(&task.ctx, &cpu.shed_ctx):
\* the task resumes after this call when the scheduler picks it again (the
\* assertion on Cpu::int_disables is the subject of sched_assert)
sched(k, t, resume) ==
    IF k.state[t] = "Running" THEN [k EXCEPT !.panic = TRUE]
    ELSE [k EXCEPT !.pc[t] = resume, !.cpu.mode = "scheduler_back"]

\* scheduler(): one turn of the for loop: the lock of tasks[i] is taken, a Ready
\* task becomes Running and is switched to, any other is skipped and unlocked
scheduler(k) ==
    IF runnable(k.state[k.cpu.i])
    THEN [k EXCEPT !.lock[k.cpu.i] = TRUE,
                   !.state[k.cpu.i] = "Running",
                   !.cpu.task_idx = k.cpu.i,
                   !.cpu.mode = "kernel"]
    ELSE [k EXCEPT !.cpu.i = (k.cpu.i + 1) % NSlp]

\* scheduler() after switch returned: task_idx = None, the guard of the task lock drops
scheduler_back(k) ==
    [k EXCEPT !.cpu.task_idx = NoTask,
              !.lock[k.cpu.i] = FALSE,
              !.cpu.i = (k.cpu.i + 1) % NSlp,
              !.cpu.mode = "scheduler"]

\* yild(): get_task().unwrap(), task.lock.acquire(), state = Ready, sched()
yild(k) ==
    IF k.cpu.task_idx = NoTask THEN [k EXCEPT !.panic = TRUE]
    ELSE sched([k EXCEPT !.lock[k.cpu.task_idx] = TRUE,
                         !.state[k.cpu.task_idx] = "Ready"],
               k.cpu.task_idx, "yild_back")

\* yild() after sched() returned: drop(lock); back to user mode
yild_back(k, t) ==
    [k EXCEPT !.lock[t] = FALSE, !.pc[t] = "user", !.cpu.mode = "user"]

\* a sleep that keeps the caller's lock
sleep_hold(k, t, c) ==
    sched([k EXCEPT !.lock[t] = TRUE,
                    !.state[t] = "Sleeping",
                    !.chan[t] = c],
          t, "sleep_back")

\* sleep(chan, lock) up to sched(): task.lock.acquire(), lock.release(),
\* state = Sleeping, chan = Some(chan), sched()
sleep(k, t, c) ==
    sched([k EXCEPT !.lock[t] = TRUE,
                    !.L = NoTask,
                    !.state[t] = "Sleeping",
                    !.chan[t] = c],
          t, "sleep_back")

\* sleep(chan, lock) after sched() returned: chan = None, forget(lock.acquire()),
\* the guard of the task lock drops at the end of the function
sleep_back(k, t) ==
    [k EXCEPT !.chan[t] = NoChan,
              !.L = t,
              !.lock[t] = FALSE,
              !.pc[t] = "sleep_returned"]

\* a wakeup that does not look at Task::chan
sched_wakeup_any(k, c) ==
    [k EXCEPT !.state = [t \in SlTasks |->
                            IF k.state[t] = "Sleeping" THEN "Ready" ELSE k.state[t]],
              !.last = [op |-> "wakeup", c |-> c,
                        state |-> k.state, chan |-> k.chan, lock |-> k.lock]]

\* sched.rs wakeup(chan): under its lock, every task that is Sleeping with
\* chan == Some(chan) becomes Ready
sched_wakeup(k, c) ==
    [k EXCEPT !.state = [t \in SlTasks |->
                            IF k.state[t] = "Sleeping" /\ k.chan[t] # NoChan
                               /\ k.chan[t] = c
                            THEN "Ready" ELSE k.state[t]],
              !.last = [op |-> "wakeup", c |-> c,
                        state |-> k.state, chan |-> k.chan, lock |-> k.lock]]

\* Wq::add under self.lock: tasks[count] = Some(task), count += 1; an index
\* past the array panics
Wq_add(k, q, t) ==
    IF Wq_count(k.wq[q]) >= WQ_LEN THEN [k EXCEPT !.panic = TRUE]
    ELSE [k EXCEPT !.wq[q].tasks[t] = @ + 1]

\* the queue's lock taken, the registered tasks looked at, the lock released
Wq_locked(k, q, wake) ==
    LET k1 == [k EXCEPT !.wq[q].lock = TRUE]
        k2 == [k1 EXCEPT
                  !.state = [t \in SlTasks |->
                                IF t \in wake /\ k1.state[t] = "Sleeping"
                                THEN "Ready" ELSE k1.state[t]],
                  !.wq[q].tasks = [t \in SlTasks |-> 0],
                  !.last = [op |-> "wake_all", q |-> q, under |-> k1.wq[q].lock,
                            reg |-> Registered(k.wq[q]), state |-> k.state]]
    IN [k2 EXCEPT !.wq[q].lock = FALSE]

\* a wake_all that looks at one registered task only
Wq_wake_all_first(k, q) ==
    Wq_locked(k, q, {t \in Registered(k.wq[q]) : \A u \in Registered(k.wq[q]) : t <= u})

\* Wq::wake_all under self.lock: every tasks[i], i < count, that is Sleeping
\* becomes Ready (under its own lock); count = 0
Wq_wake_all(k, q) == Wq_locked(k, q, Registered(k.wq[q]))

\* cons.rs File::readable: the buffer is not empty
readable(k) == k.buf > 0

\* cons.rs push_char with ICANON off: push_back(c), wq.wake_all()
push_char(k) == Wq_wake_all([k EXCEPT !.buf = @ + 1], "BUF")

\* cons.rs read_line with ICANON off on a buffer that holds a character: pop_front
read_line(k) == [k EXCEPT !.buf = @ - 1]

\* a handle_tik that yields only when it interrupted the kernel
timer_handle_tik_el1(k, el) ==
    LET k1 == Wq_wake_all([k EXCEPT !.ticks = @ + 1], "TICK")
        y  == el = 1 /\ k1.cpu.task_idx # NoTask
    IN [(IF y THEN yild(k1) ELSE k1)
           EXCEPT !.last = [op |-> "handle_tik", el |-> el,
                            task |-> k.cpu.task_idx, yielded |-> y,
                            cpu |-> k.cpu]]

\* timer.rs handle_tik(el): the tick count, wake_all on the timer's queue, then
\* yild() if (el == 1 && get_task().is_some()) || el == 0
timer_handle_tik(k, el) ==
    LET k1 == Wq_wake_all([k EXCEPT !.ticks = @ + 1], "TICK")
        y  == (el = 1 /\ k1.cpu.task_idx # NoTask) \/ el = 0
    IN [(IF y THEN yild(k1) ELSE k1)
           EXCEPT !.last = [op |-> "handle_tik", el |-> el,
                            task |-> k.cpu.task_idx, yielded |-> y,
                            cpu |-> k.cpu]]

\* fs.rs check_events for one Pollfd with events = POLL::IN on the console: an
\* event if readable, else wait4readable() and, with a timeout, timer::add2wait()
check_events_in(k, t) ==
    IF readable(k) THEN [k EXCEPT !.n[t] = 1]
    ELSE LET k1 == Wq_add([k EXCEPT !.n[t] = 0], "BUF", t)
         IN IF k1.panic \/ ~k.tw[t] THEN k1 ELSE Wq_add(k1, "TICK", t)

\* ppoll with a timeout of zero has timed out: read_tick() - start > ts.millis()
timed_out(k, t) == k.tw[t] /\ k.ticks - k.start[t] > millis([sec |-> 0, nsec |-> 0])

\* the closure ppoll passes to sleep_if: n == 0 && !timed_out
ppoll_cond(k, t) ==
    LET k1 == check_events_in(k, t)
    IN [k1 EXCEPT !.cond[t] = (k1.n[t] = 0 /\ ~timed_out(k1, t))]

\* sleep_if: task.lock.acquire(), then cond()
sleep_if_cond(k, t) ==
    [ppoll_cond([k EXCEPT !.lock[t] = TRUE], t) EXCEPT !.pc[t] = "sleep_if_cond"]

\* a sleep_if that sleeps whatever cond() returned
sleep_if_always(k, t) ==
    sched([k EXCEPT !.state[t] = "Sleeping", !.chan[t] = NoChan], t, "sleep_if_back")

\* sleep_if after cond(): return (the guard drops, ppoll leaves its loop and
\* returns n) if it was false, else state = Sleeping, chan = None, sched()
sleep_if(k, t) ==
    IF ~k.cond[t]
    THEN Return([k EXCEPT !.lock[t] = FALSE], t)
    ELSE sched([k EXCEPT !.state[t] = "Sleeping", !.chan[t] = NoChan],
               t, "sleep_if_back")

\* sleep_if after sched() returned: chan = None, drop(task_lock); ppoll loops
sleep_if_back(k, t) ==
    [k EXCEPT !.chan[t] = NoChan, !.lock[t] = FALSE, !.pc[t] = "ppoll_loop"]

\* an action of this part of the model leaves the rest alone
idleSlp == <<varsPm, varsCow, varsSched, varsP9, varsFs, varsVm, varsDabt, varsPoll>>
kernSl == <<IC, FK, NP, VD, varsLate>>

\* a step other than wakeup, wake_all and handle_tik
Logged(k, op, t) == [k EXCEPT !.last = [op |-> "none"]]

InitSlp ==
    /\ kend = Pow2(MaxOrder)
    /\ ALLOC = AllocatorInit(kend)
    /\ peak = 0
    /\ CowIdle
    /\ SchedIdle
    /\ P9Idle
    /\ MoreIdle

SlScheduler ==
    /\ ~SL.panic
    /\ SL.cpu.mode = "scheduler"
    /\ ~SL.lock[SL.cpu.i]
    /\ SL' = Logged(scheduler(SL), "scheduler", SL.cpu.i)
    /\ UNCHANGED <<idleSlp, kernSl>>

SlSchedulerBack ==
    /\ ~SL.panic
    /\ SL.cpu.mode = "scheduler_back"
    /\ SL' = Logged(scheduler_back(SL), "scheduler_back", SL.cpu.i)
    /\ UNCHANGED <<idleSlp, kernSl>>

SlYildBack ==
    /\ SlAt("yild_back")
    /\ SL' = Logged(yild_back(SL, SlCur), "yild_back", SlCur)
    /\ UNCHANGED <<idleSlp, kernSl>>

\* ppoll(fds, 1, ts) on the console: start = read_tick()
SlPpoll(tw) ==
    /\ SlUser
    /\ SL' = Logged([SL EXCEPT !.pc[SlCur] = "ppoll_loop", !.cpu.mode = "kernel",
                               !.start[SlCur] = SL.ticks, !.tw[SlCur] = tw,
                               !.n[SlCur] = 0],
                    "ppoll", SlCur)
    /\ UNCHANGED <<idleSlp, kernSl>>

SlSleepIfCond ==
    /\ SlAt("ppoll_loop")
    /\ \A q \in WqNames : Wq_count(SL.wq[q]) < MaxReg
    /\ ~SL.lock[SlCur]
    /\ SL' = Logged(sleep_if_cond(SL, SlCur), "cond", SlCur)
    /\ UNCHANGED <<idleSlp, kernSl>>

SlSleepIf ==
    /\ SlAt("sleep_if_cond")
    /\ SL' = Logged(sleep_if(SL, SlCur), "sleep_if", SlCur)
    /\ UNCHANGED <<idleSlp, kernSl>>

SlSleepIfBack ==
    /\ SlAt("sleep_if_back")
    /\ SL' = Logged(sleep_if_back(SL, SlCur), "sleep_if_back", SlCur)
    /\ UNCHANGED <<idleSlp, kernSl>>

\* read of the console after ppoll reported POLLIN
SlReadLine ==
    /\ SlUser
    /\ readable(SL)
    /\ SL' = Logged(read_line(SL), "read_line", SlCur)
    /\ UNCHANGED <<idleSlp, kernSl>>

\* a call that takes the lock of a resource and then sleeps on a channel
SlCall(c) ==
    /\ SlUser
    /\ SL.L = NoTask
    /\ SL' = Logged([SL EXCEPT !.L = SlCur, !.arg[SlCur] = c,
                               !.pc[SlCur] = "call_locked", !.cpu.mode = "kernel"],
                    "call", SlCur)
    /\ UNCHANGED <<idleSlp, kernSl>>

SlSleep ==
    /\ SlAt("call_locked")
    /\ ~SL.lock[SlCur]
    /\ SL' = Logged(sleep(SL, SlCur, SL.arg[SlCur]), "sleep", SlCur)
    /\ UNCHANGED <<idleSlp, kernSl>>

SlSleepBack ==
    /\ SlAt("sleep_back")
    /\ SL.L = NoTask
    /\ SL' = Logged(sleep_back(SL, SlCur), "sleep_back", SlCur)
    /\ UNCHANGED <<idleSlp, kernSl>>

\* the caller's guard drops and the call returns to user mode
SlCallReturn ==
    /\ SlAt("sleep_returned")
    /\ SL' = Logged(Return([SL EXCEPT !.L = NoTask], SlCur), "call_return", SlCur)
    /\ UNCHANGED <<idleSlp, kernSl>>

\* uart.rs handle_rx: one character received
SlHandleRx ==
    /\ IrqOpen
    /\ SL.buf < MaxBuf
    /\ SL' = push_char(SL)
    /\ UNCHANGED <<idleSlp, kernSl>>

\* the timer interrupt
SlHandleTik ==
    /\ IrqOpen
    /\ SL.ticks < MaxSlpTicks
    /\ SL' = timer_handle_tik(SL, FrameEl)
    /\ UNCHANGED <<idleSlp, kernSl>>

\* an interrupt whose handler calls wakeup(c)
SlWakeup(c) ==
    /\ IrqOpen
    /\ \A t \in SlTasks : ~SL.lock[t]
    /\ SL' = sched_wakeup(SL, c)
    /\ UNCHANGED <<idleSlp, kernSl>>

NextSlp ==
    \/ SlScheduler
    \/ SlSchedulerBack
    \/ SlYildBack
    \/ \E tw \in BOOLEAN : SlPpoll(tw)
    \/ SlSleepIfCond
    \/ SlSleepIf
    \/ SlSleepIfBack
    \/ SlReadLine
    \/ \E c \in Chans : SlCall(c)
    \/ SlSleep
    \/ SlSleepBack
    \/ SlCallReturn
    \/ SlHandleRx
    \/ SlHandleTik
    \/ \E c \in Chans : SlWakeup(c)

SpecSlp == InitSlp /\ [][NextSlp]_vars

----------------------------------------------------------------------------
(* Claims on sleep, sleep_if, wakeup, the wait queues and the tick *)

\* the closure of ppoll would return true in the current state
CondNow(t) == ~readable(SL) /\ ~timed_out(SL, t)

\* task t is in sleep_if and Sleeping
AsleepInSleepIf(t) == SL.pc[t] = "sleep_if_back" /\ SL.state[t] = "Sleeping"

\* C21: sleep_if(cond) evaluates cond while the task lock is held, and between
\* the evaluation and the transition to Sleeping no wake-up changes what cond
\* returns; a task is Sleeping in sleep_if only if cond was true, and every
\* wake-up that falsifies cond afterwards makes it Ready: a task whose cond is
\* false does not sleep.
C21_SleepsOnlyIfCond ==
    \A t \in SlTasks :
        /\ SL.pc[t] = "sleep_if_cond" => (SL.lock[t] /\ (SL.cond[t] <=> CondNow(t)))
        /\ AsleepInSleepIf(t) => (SL.cond[t] /\ CondNow(t))

\* a task sleeps in sleep_if, registered in the console's queue, and the other
\* task left sleep_if without sleeping because a character was there
C21_Witness ==
    \E t \in SlTasks :
        /\ AsleepInSleepIf(t)
        /\ t \in Registered(SL.wq["BUF"])
        /\ \E u \in SlTasks : SL.pc[u] = "user" /\ SL.state[u] = "Running"

\* C22: whenever sleep(chan, lock) has returned, the caller holds lock again and
\* its chan is None; a task that is Sleeping does not hold lock.
C22_SleepReturnsWithLock ==
    \A t \in SlTasks :
        /\ SL.pc[t] = "sleep_returned" => (SL.L = t /\ SL.chan[t] = NoChan)
        /\ SL.state[t] = "Sleeping" => SL.L # t

\* a task is back from sleep while the other one still sleeps on its channel
C22_Witness ==
    \E t, u \in SlTasks :
        /\ SL.pc[t] = "sleep_returned"
        /\ SL.state[u] = "Sleeping"
        /\ SL.chan[u] \in Chans

\* C23: wakeup(chan) makes Ready exactly the tasks that were Sleeping with chan
\* equal to the argument; the state of every other task, and the chan and the
\* lock of every task, are as before.
C23_WakeupExactly ==
    SL.last.op = "wakeup" =>
        /\ \A t \in SlTasks :
              SL.state[t] = IF SL.last.state[t] = "Sleeping" /\ SL.last.chan[t] = SL.last.c
                            THEN "Ready" ELSE SL.last.state[t]
        /\ SL.chan = SL.last.chan
        /\ SL.lock = SL.last.lock

\* wakeup woke one task and left asleep one that sleeps on another channel or
\* on none
C23_Witness ==
    /\ SL.last.op = "wakeup"
    /\ \E t, u \in SlTasks :
          /\ SL.last.state[t] = "Sleeping"
          /\ SL.state[t] = "Ready"
          /\ SL.last.state[u] = "Sleeping"
          /\ SL.state[u] = "Sleeping"

\* C24: after Wq::add in the closure of ppoll the task is registered and still
\* Running; wake_all, under the queue's lock, makes every registered task that
\* was Sleeping Ready, changes no other task and empties the queue.
C24_AddAndWakeAll ==
    /\ \A t \in SlTasks :
          (SL.pc[t] = "sleep_if_cond" /\ SL.n[t] = 0) =>
              (SL.state[t] = "Running" /\ t \in Registered(SL.wq["BUF"]))
    /\ SL.last.op = "wake_all" =>
          /\ SL.last.under
          /\ \A t \in SlTasks :
                SL.state[t] = IF t \in SL.last.reg /\ SL.last.state[t] = "Sleeping"
                              THEN "Ready" ELSE SL.last.state[t]
          /\ Registered(SL.wq[SL.last.q]) = {}

\* wake_all found two registered tasks asleep
C24_Witness ==
    /\ SL.last.op = "wake_all"
    /\ \E t, u \in SL.last.reg :
          /\ t # u
          /\ SL.last.state[t] = "Sleeping" /\ SL.state[t] = "Ready"
          /\ SL.last.state[u] = "Sleeping" /\ SL.state[u] = "Ready"

\* C25: handle_tik has switched to the scheduler through yild iff it interrupted
\* EL0 or a task was current; a tick taken in the loop of scheduler(), where no
\* task is current, leaves the CPU where it was and every task as wake_all left it.
C25_TickYields ==
    SL.last.op = "handle_tik" =>
        /\ ~SL.panic
        /\ (SL.cpu.mode = "scheduler_back") <=> (SL.last.el = 0 \/ SL.last.task # NoTask)
        /\ SL.last.task # NoTask => SL.state[SL.last.task] = "Ready"
        /\ SL.last.task = NoTask =>
              (SL.cpu = SL.last.cpu /\ \A t \in SlTasks : SL.state[t] # "Running")

\* the tick interrupted a task in user mode, which yielded
C25_Witness ==
    /\ SL.last.op = "handle_tik"
    /\ SL.last.el = 0
    /\ SL.cpu.mode = "scheduler_back"

----------------------------------------------------------------------------
(* sched.rs Cpu::disable_intr / enable_intr / get_task, spin.rs Lock::acquire / *)
(* release, sched(): the interrupt mask, the disable depth and the locks held   *)

\* arch.rs r_pstate_daif(): DAIF >> 6, bit 1 is the I bit
r_pstate_daif(k) == IF k.masked THEN {1} ELSE {}

\* Cpu::disable_intr: at depth 0, int_enable = (r_pstate_daif() | 0b10) == 0 and
\* pstate_i_set(); int_disables += 1
disable_intr(k) ==
    IF k.int_disables = 0
    THEN [k EXCEPT !.int_enable = ((r_pstate_daif(k) \cup {1}) = {}),
                   !.masked = TRUE,
                   !.int_disables = 1]
    ELSE [k EXCEPT !.int_disables = @ + 1]

\* Cpu::enable_intr: pstate_i_clr() at depth 1 if int_enable; int_disables -= 1
enable_intr(k) ==
    IF k.int_disables = 1 /\ k.int_enable
    THEN [k EXCEPT !.masked = FALSE, !.int_disables = 0]
    ELSE [k EXCEPT !.int_disables = @ - 1]

\* Lock::acquire: compare_exchange_weak(false, true) until it succeeds; the
\* guard is returned
Lock_acquire(k, l) ==
    [k EXCEPT !.held = @ \cup {l},
              !.first_enabled = IF k.held = {} THEN ~k.masked ELSE @,
              !.last = [op |-> "acquire", first |-> k.held = {}, masked |-> k.masked]]

\* Lock::release: locked.store(false)
Lock_release(k, l) ==
    [k EXCEPT !.held = @ \ {l},
              !.last = [op |-> "release", last |-> k.held = {l}, masked |-> k.masked]]

\* sched(): assert!(cpu.int_disables == 1), then switch to the scheduler, which
\* sets task_idx = None and drops its guard of the task lock
sched_assert(k) ==
    IF k.int_disables # 1 THEN [k EXCEPT !.panic = TRUE, !.last = [op |-> "sched"]]
    ELSE [k EXCEPT !.held = @ \ {"task"}, !.task = FALSE, !.mode = "scheduler",
                   !.ret = "none", !.last = [op |-> "sched"]]

\* an action of this part of the model leaves the rest alone
idleIc == <<varsPm, varsCow, varsSched, varsP9, varsFs, varsVm, varsDabt, varsPoll, SL, FK, NP, VD, varsLate>>

\* the CPU executes kernel code outside get_task
IcKernel ==
    /\ ~IC.panic
    /\ IC.mode = "kernel"
    /\ ~IC.in_get_task

InitIc ==
    /\ kend = Pow2(MaxOrder)
    /\ ALLOC = AllocatorInit(kend)
    /\ peak = 0
    /\ CowIdle
    /\ SchedIdle
    /\ P9Idle
    /\ MoreIdle

\* scheduler(): pstate_i_clr() at the top of the loop
IcWindowOpen ==
    /\ ~IC.panic
    /\ IC.mode = "scheduler"
    /\ IC' = [IC EXCEPT !.masked = FALSE, !.mode = "window", !.last = [op |-> "pstate_i_clr"]]
    /\ UNCHANGED idleIc

\* scheduler(): pstate_i_set()
IcWindowClose ==
    /\ ~IC.panic
    /\ IC.mode = "window"
    /\ IC' = [IC EXCEPT !.masked = TRUE, !.mode = "scheduler", !.last = [op |-> "pstate_i_set"]]
    /\ UNCHANGED idleIc

\* scheduler(): a Ready task: task.lock.acquire(), task_idx = Some(i), switch
IcPick ==
    /\ ~IC.panic
    /\ IC.mode = "scheduler"
    /\ IC' = [Lock_acquire(IC, "task") EXCEPT !.task = TRUE, !.mode = "kernel", !.ret = "user"]
    /\ UNCHANGED idleIc

\* an exception from EL0 (svc, abort or interrupt) or an interrupt in the loop
\* of scheduler(): PSTATE.I is set on entry
IcTrap ==
    /\ ~IC.panic
    /\ IC.mode \in {"user", "window"}
    /\ ~IC.masked
    /\ IC' = [IC EXCEPT !.masked = TRUE, !.ret = IC.mode, !.mode = "kernel",
                        !.last = [op |-> "trap"]]
    /\ UNCHANGED idleIc

\* eret: PSTATE is restored from SPSR_EL1
IcEret ==
    /\ IcKernel
    /\ IC.held = {}
    /\ IC' = [IC EXCEPT !.masked = FALSE, !.mode = IC.ret, !.ret = "none",
                        !.last = [op |-> "eret"]]
    /\ UNCHANGED idleIc

\* Cpu::get_task: self.disable_intr()
IcGetTask ==
    /\ IcKernel
    /\ IC' = [disable_intr(IC) EXCEPT !.in_get_task = TRUE, !.last = [op |-> "disable_intr"]]
    /\ UNCHANGED idleIc

\* Cpu::get_task: self.enable_intr()
IcGetTaskReturn ==
    /\ ~IC.panic
    /\ IC.in_get_task
    /\ IC' = [enable_intr(IC) EXCEPT !.in_get_task = FALSE, !.last = [op |-> "enable_intr"]]
    /\ UNCHANGED idleIc

IcAcquire(l) ==
    /\ IcKernel
    /\ l \notin IC.held
    /\ IC' = Lock_acquire(IC, l)
    /\ UNCHANGED idleIc

IcRelease(l) ==
    /\ IcKernel
    /\ l \in IC.held
    /\ IC' = Lock_release(IC, l)
    /\ UNCHANGED idleIc

\* yild, sleep, sleep_if, exit: sched() is called with the task lock held
IcSched ==
    /\ IcKernel
    /\ IC.task
    /\ "task" \in IC.held
    /\ IC' = sched_assert(IC)
    /\ UNCHANGED idleIc

NextIc ==
    \/ IcWindowOpen
    \/ IcWindowClose
    \/ IcPick
    \/ IcTrap
    \/ IcEret
    \/ IcGetTask
    \/ IcGetTaskReturn
    \/ \E l \in Locks : IcAcquire(l)
    \/ \E l \in Locks : IcRelease(l)
    \/ IcSched

SpecIc == InitIc /\ [][NextIc]_vars

\* C26: interrupts are disabled (masked in PSTATE, and counted as disabled by
\* Cpu::int_disables, the depth lock acquisition is said to raise) whenever a
\* lock is held; the release of the last held lock leaves interrupts enabled iff
\* they were enabled when the first lock was acquired.
C26_LocksDisableInterrupts ==
    /\ IC.held # {} => (IC.masked /\ IC.int_disables > 0)
    /\ (IC.last.op = "release" /\ IC.last.last) => (~IC.masked <=> IC.first_enabled)

\* what holds of the code: PSTATE.I is set whenever a lock is held, because
\* locks are only taken in exception handlers and in scheduler() after
\* pstate_i_set(); the release of the last lock leaves it set
C26_MaskedWhileLocked ==
    /\ IC.held # {} => IC.masked
    /\ (IC.last.op = "release" /\ IC.last.last) => (IC.masked /\ ~IC.first_enabled)

\* sched() is reached with a disable depth other than 1
C26_SchedPanics == IC.panic


(***************************************************************************)
(* fork, exit and wait on the task table (src/src/sched.rs) with the       *)
(* registers svc::handle reads and writes (src/src/svc.rs).                *)
(***************************************************************************)

\* sched.rs clone flags and the system call numbers of svc::handle
SIGCHLD == 17
CLONE_VM == 256
CLONE_CHILD_CLEARTID == 2097152
SYS_exit_group == 94
SYS_clone == 220
SYS_wait4 == 260

\* !0 as u64, written as the two's complement value
NOT0 == -1

\* the flag words user code passes to clone in the model
FkFlags == {SIGCHLD, SIGCHLD + CLONE_CHILD_CLEARTID, SIGCHLD + CLONE_VM}

\* alloc_task: the first Free slot becomes Used with pid = index, its lock stays
\* held (forget), init_1 points its context at forkret; None with no Free slot
sched_alloc_task(k) ==
    LET frees == {i \in FkTasks : k.tasks[i].state = "Free"} IN
    IF frees = {}
    THEN [k EXCEPT !.nt = NoTask]
    ELSE LET i == CHOOSE i \in frees : \A j \in frees : i <= j IN
         [k EXCEPT !.tasks[i].state = "Used", !.tasks[i].pid = i,
                   !.tasks[i].lock = TRUE, !.tasks[i].ctx = "forkret", !.nt = i]

\* fork with a new task c: the trap frame is copied and regs[0] not cleared
fork_child_keep(k, t, c, clear_tid) ==
    LET k1 == [k EXCEPT !.tf[c] = k.tf[t]]
        k3 == [k1 EXCEPT !.tasks[c].state = "Ready"]
        k4 == [k3 EXCEPT !.WAIT = t]
        k5 == [k4 EXCEPT !.tasks[c].parent = t, !.under = (k4.WAIT = t)]
        k6 == [k5 EXCEPT !.WAIT = NoTask]
        pid == k6.tasks[c].pid
        k7 == IF clear_tid THEN [k6 EXCEPT !.tasks[c].tid = TRUE] ELSE k6
    IN  [k7 EXCEPT !.tasks[c].lock = FALSE, !.ret = pid]

\* fork with a new task c: *nt = *tf; nt.regs[0] = 0; state = Ready; the parent
\* pointer is written between WAIT.acquire() and drop(wlock); tid = Some(..) if
\* CLONE_CHILD_CLEARTID; the task's lock is released and its pid returned
fork_child(k, t, c, clear_tid) ==
    LET k1 == [k EXCEPT !.tf[c] = k.tf[t]]
        k2 == [k1 EXCEPT !.tf[c].r0 = 0]
        k3 == [k2 EXCEPT !.tasks[c].state = "Ready"]
        k4 == [k3 EXCEPT !.WAIT = t]
        k5 == [k4 EXCEPT !.tasks[c].parent = t, !.under = (k4.WAIT = t)]
        k6 == [k5 EXCEPT !.WAIT = NoTask]
        pid == k6.tasks[c].pid
        k7 == IF clear_tid THEN [k6 EXCEPT !.tasks[c].tid = TRUE] ELSE k6
    IN  [k7 EXCEPT !.tasks[c].lock = FALSE, !.ret = pid]

\* fork: the flags are regs[0]; todo!() for CLONE_VM; !0 without a Free slot
sched_fork(k, t) ==
    LET flags64 == k.tf[t].r0
        a == sched_alloc_task(k)
    IN  IF HasFlag(flags64, CLONE_VM)
        THEN [k EXCEPT !.panic = TRUE]
        ELSE IF a.nt = NoTask
             THEN [a EXCEPT !.ret = NOT0]
             ELSE fork_child(a, t, a.nt, HasFlag(flags64, CLONE_CHILD_CLEARTID))

\* wakeup(chan) on the task table
fk_wakeup(k, c) ==
    [k EXCEPT !.tasks = [x \in FkTasks |->
        IF k.tasks[x].state = "Sleeping" /\ k.tasks[x].chan = c
        THEN [k.tasks[x] EXCEPT !.state = "Ready"]
        ELSE k.tasks[x]]]

\* sched(): back to the scheduler, which releases the task's lock after the
\* switch
fk_sched(k, t) == [k EXCEPT !.cur = NoTask, !.tasks[t].lock = FALSE]

\* exit: pid 0 panics; free_task takes WAIT, wakes the parent's channel, makes
\* the task a Zombie with its lock held and drops WAIT; sched()
sched_exit(k, t) ==
    IF k.tasks[t].pid = 0
    THEN [k EXCEPT !.panic = TRUE]
    ELSE LET k1 == [k EXCEPT !.WAIT = t]
             k2 == IF k1.tasks[t].parent # NoTask
                   THEN fk_wakeup(k1, k1.tasks[t].parent)
                   ELSE k1
             k3 == [k2 EXCEPT !.tasks[t].lock = TRUE, !.tasks[t].state = "Zombie"]
             k4 == [k3 EXCEPT !.WAIT = NoTask]
         IN  fk_sched(k4, t)

\* the loop of wait with WAIT held: the first Zombie child becomes Free and its
\* pid is returned; !0 without a child; otherwise sleep(ptr, WAIT)
wait_loop(k, t) ==
    LET kids == {c \in FkTasks : k.tasks[c].parent = t}
        zs == {c \in kids : k.tasks[c].state = "Zombie"}
    IN  IF zs # {}
        THEN LET c == CHOOSE c \in zs : \A j \in zs : c <= j IN
             [k EXCEPT !.tasks[c].state = "Free", !.tasks[c].parent = NoTask,
                       !.tasks[c].tid = FALSE, !.WAIT = NoTask,
                       !.ret = k.tasks[c].pid, !.tasks[t].ctx = "user"]
        ELSE IF kids = {}
             THEN [k EXCEPT !.WAIT = NoTask, !.ret = NOT0, !.tasks[t].ctx = "user"]
             ELSE fk_sched([k EXCEPT !.tasks[t].lock = TRUE, !.WAIT = NoTask,
                                     !.tasks[t].state = "Sleeping",
                                     !.tasks[t].chan = t, !.tasks[t].ctx = "wait"], t)

\* wait: WAIT.acquire(), then the loop
sched_wait(k, t) == wait_loop([k EXCEPT !.WAIT = t], t)

\* svc::handle: tf.regs[0] = the result of the call selected by tf.regs[8]; a call
\* that left the CPU (exit, a wait that sleeps) has not returned
svc_handle(k, t) ==
    LET n == k.tf[t].r8
        r == IF n = SYS_clone THEN sched_fork(k, t)
             ELSE IF n = SYS_wait4 THEN sched_wait(k, t)
             ELSE IF n = SYS_exit_group THEN sched_exit(k, t)
             ELSE [k EXCEPT !.panic = TRUE]
    IN  IF r.panic \/ r.cur # t THEN r ELSE [r EXCEPT !.tf[t].r0 = r.ret]

\* the record between two handlers: the locals of the handler are dead
FkDone(k, log) == [k EXCEPT !.nt = NoTask, !.ret = 0, !.under = FALSE, !.last = log]

kernFk == <<SL, IC, NP, VD, varsLate>>
idleFk == <<varsPm, varsCow, varsSched, varsP9, varsFs, varsVm, varsDabt, varsPoll, kernFk>>

\* a task executes user code
FkUser ==
    /\ ~FK.panic
    /\ FK.cur # NoTask
    /\ FK.tasks[FK.cur].ctx = "user"

InitFork ==
    /\ kend = Pow2(MaxOrder)
    /\ ALLOC = AllocatorInit(kend)
    /\ peak = 0
    /\ CowIdle
    /\ SchedIdle
    /\ P9Idle
    /\ MoreIdle

\* svc 220 with the flags in x0
FkFork(flags) ==
    /\ FkUser
    /\ LET t == FK.cur
           k0 == [FK EXCEPT !.tf[t] = [r0 |-> flags, r8 |-> SYS_clone]]
           k == svc_handle(k0, t)
       IN  FK' = FkDone(k, [op |-> "fork", t |-> t, c |-> k.nt, ret |-> k.ret,
                            under |-> k.under, flags |-> flags])
    /\ UNCHANGED idleFk

\* svc 260
FkWait4 ==
    /\ FkUser
    /\ LET t == FK.cur
           k0 == [FK EXCEPT !.tf[t] = [r0 |-> 0, r8 |-> SYS_wait4]]
       IN  FK' = FkDone(svc_handle(k0, t), [op |-> "wait"])
    /\ UNCHANGED idleFk

\* a task woken in wait runs again: sleep clears chan and takes WAIT again, the
\* loop of wait goes round, svc::handle stores the result when wait returns
FkWaitBack ==
    /\ ~FK.panic
    /\ FK.cur # NoTask
    /\ FK.tasks[FK.cur].ctx = "wait"
    /\ LET t == FK.cur
           k == wait_loop([FK EXCEPT !.tasks[t].chan = NoTask, !.WAIT = t], t)
       IN  FK' = FkDone(IF k.cur # t THEN k ELSE [k EXCEPT !.tf[t].r0 = k.ret],
                        [op |-> "wait"])
    /\ UNCHANGED idleFk

\* svc 94
FkExitGroup ==
    /\ FkUser
    /\ LET t == FK.cur
           k0 == [FK EXCEPT !.tf[t] = [r0 |-> 0, r8 |-> SYS_exit_group]]
       IN  FK' = FkDone(svc_handle(k0, t), [op |-> "exit"])
    /\ UNCHANGED idleFk

\* the timer interrupt in user mode: yild
FkYild ==
    /\ FkUser
    /\ FK' = FkDone(fk_sched([FK EXCEPT !.tasks[FK.cur].state = "Ready"], FK.cur),
                    [op |-> "yild"])
    /\ UNCHANGED idleFk

\* scheduler: the slot at the loop index runs if it is Ready, a new task through
\* forkret to user mode; the loop goes on at the next slot
FkScheduler ==
    /\ ~FK.panic
    /\ FK.cur = NoTask
    /\ LET i == FK.i
           k == IF FK.tasks[i].state = "Ready"
                THEN [FK EXCEPT !.tasks[i].state = "Running", !.cur = i,
                                !.tasks[i].ctx = IF @ = "forkret" THEN "user" ELSE @]
                ELSE FK
       IN  FK' = FkDone([k EXCEPT !.i = (i + 1) % NFk], [op |-> "scheduler"])
    /\ UNCHANGED idleFk

NextFork ==
    \/ \E flags \in FkFlags : FkFork(flags)
    \/ FkWait4
    \/ FkWaitBack
    \/ FkExitGroup
    \/ FkYild
    \/ FkScheduler

SpecFork == InitFork /\ [][NextFork]_vars

\* C27: a fork that succeeds returns the child's pid, stored in the parent's
\* regs[0]; the child is Ready, has the parent's trap frame with regs[0] = 0 and
\* the forking task as its parent, written while WAIT was held; WAIT and the
\* child's lock are free afterwards; a task that has not run since it was forked
\* still has regs[0] = 0
C27_ForkContract ==
    /\ (FK.last.op = "fork" /\ ~FK.panic /\ FK.last.ret # NOT0) =>
          /\ FK.last.c \in FkTasks \ {FK.last.t}
          /\ FK.last.ret = FK.tasks[FK.last.c].pid
          /\ FK.tf[FK.last.t].r0 = FK.last.ret
          /\ FK.cur = FK.last.t
          /\ FK.tasks[FK.last.t].state = "Running"
          /\ FK.tasks[FK.last.c].state = "Ready"
          /\ FK.tf[FK.last.c].r0 = 0
          /\ FK.tf[FK.last.c].r8 = FK.tf[FK.last.t].r8
          /\ FK.tasks[FK.last.c].parent = FK.last.t
          /\ FK.last.under
          /\ FK.WAIT = NoTask
          /\ ~FK.tasks[FK.last.c].lock
    /\ \A c \in FkTasks :
          FK.tasks[c].ctx = "forkret" =>
              /\ FK.tf[c].r0 = 0
              /\ FK.tasks[c].parent # NoTask

\* a task forked by a forked task into a slot that wait recycled
C27_Witness ==
    /\ FK.last.op = "fork"
    /\ FK.last.t = 2
    /\ FK.last.ret = 1
    /\ FK.last.flags = SIGCHLD + CLONE_CHILD_CLEARTID
    /\ FK.tasks[1].parent = 2

\* fork fails: no slot is Free
C27_ForkFails == ~(FK.last.op = "fork" /\ ~FK.panic /\ FK.last.ret = NOT0)

(***************************************************************************)
(* The 9P calls of src/src/p9.rs with the kind of each reply, and the      *)
(* system calls of src/src/fs.rs that issue them.                          *)
(***************************************************************************)

\* p9.rs enum Op: a variant without a value is the one before it plus one
RLERROR == 7
TWALK == 110
RWALK == TWALK + 1
TOPEN == 112
ROPEN == TOPEN + 1
TREAD == 116
RREAD == TREAD + 1
TWRITE == 118
RWRITE == TWRITE + 1
TCLUNK == 120
RCLUNK == TCLUNK + 1

\* what the caller finds at offset 4 of the message buffer after the sleep: the
\* reply to its request, Rlerror, or its own request (request and reply share
\* the buffer, and the wake-up may come before the device wrote)
ReplyKinds(t) == {t + 1, RLERROR, t}

\* the paths of the model: the root and a file below it
NpPaths == {"/", "/a"}

\* a request of kind t is published, the caller sleeps and reads the kind r
np_msg(k, t, r, res) ==
    [k EXCEPT !.msgs = Append(@, [t |-> t, r |-> r, res |-> res]), !.res = res]

\* ops::walk: "/" is fid 0 without a message; otherwise alloc_fid().unwrap(),
\* Twalk, Err unless the reply is Rwalk (the fid stays allocated)
ops_walk(k, path, r) ==
    IF path = "/" THEN [k EXCEPT !.res = "Ok", !.fid = 0]
    ELSE IF Fids \ k.fid_bs = {} THEN FsPanic(k)
    ELSE LET fid == NextFid(k)
             k1 == [alloc_fid(k) EXCEPT !.allocd = @ \cup {fid}, !.fid = fid]
         IN  np_msg(k1, TWALK, r, IF r # RWALK THEN "Err" ELSE "Ok")

\* ops::open: Err for a fid that is not in use, Topen, Err unless Ropen
ops_open(k, fid, r) ==
    IF ~fid_is_ok(k, fid) THEN [k EXCEPT !.res = "Err"]
    ELSE np_msg(k, TOPEN, r, IF r # ROPEN THEN "Err" ELSE "Ok")

\* ops::rw: Err for a fid that is not in use, Tread or Twrite, Err unless the
\* reply is Rread or Rwrite
ops_rw(k, fid, is_r, r) ==
    IF ~fid_is_ok(k, fid) THEN [k EXCEPT !.res = "Err"]
    ELSE np_msg(k, IF is_r THEN TREAD ELSE TWRITE, r,
                IF r # (IF is_r THEN RREAD ELSE RWRITE) THEN "Err" ELSE "Ok")

\* ops::clunk: Err for a fid that is not in use, Tclunk, Err unless Rclunk,
\* then free_fid
ops_clunk(k, fid, r) ==
    IF ~fid_is_ok(k, fid) THEN [k EXCEPT !.res = "Err"]
    ELSE LET k1 == np_msg([k EXCEPT !.clunked = @ \cup {fid}], TCLUNK, r,
                          IF r # RCLUNK THEN "Err" ELSE "Ok")
         IN  IF k1.res = "Err" THEN k1
             ELSE [free_fid(k1, fid) EXCEPT !.freed = @ \cup {fid}]

\* p9::open: walk, then open on the fid walk returned
p9_open(k, path, r1, r2) ==
    LET w == ops_walk(k, path, r1) IN
    IF w.panic \/ w.res # "Ok" THEN w ELSE ops_open(w, w.fid, r2)

\* fs.rs open on a slot of the pool: the slot becomes a 9P file with rc 1, or
\* is given back when p9::open failed
fs_open(k, path, r1, r2) ==
    LET a == alloc_file(k) IN
    IF a.res # "Ok" THEN a
    ELSE LET s == a.ret
             o == p9_open(a, path, r1, r2)
         IN  IF o.panic THEN o
             ELSE IF o.res = "Ok"
             THEN [o EXCEPT !.FS[s] = [kind |-> "P9", rc |-> 1, fid |-> o.fid],
                            !.ret = s]
             ELSE [free_file(o, s) EXCEPT !.res = "Err"]

\* the fds of the task that are None
NpFreeFds(k) == {fd \in NpFds : k.files[fd] = NoFile}

\* fs.rs openat: the first fd that is None gets the file; !0 when there is none
\* or open failed
fs_openat(k, path, r1, r2) ==
    IF NpFreeFds(k) = {} THEN [k EXCEPT !.ret = NOT0]
    ELSE LET idx == CHOOSE fd \in NpFreeFds(k) : \A g \in NpFreeFds(k) : fd <= g
             o == fs_open(k, path, r1, r2)
         IN  IF o.panic THEN o
             ELSE IF o.res = "Ok"
             THEN [o EXCEPT !.files[idx] = o.ret, !.ret = idx]
             ELSE [o EXCEPT !.ret = NOT0]

\* fs.rs File::read and File::write on a 9P file: Err for rc = 0, otherwise the
\* Result of ops::rw
File_rw(k, s, is_r, r) ==
    IF k.FS[s].rc = 0 THEN [k EXCEPT !.res = "Err"]
    ELSE ops_rw(k, k.FS[s].fid, is_r, r)

\* fs.rs sys_read and sys_write: !0 for an fd that is None and for Err, the byte
\* count otherwise (one byte in the model)
fs_sys_rw(k, fd, is_r, r) ==
    IF k.files[fd] = NoFile THEN [k EXCEPT !.ret = NOT0]
    ELSE LET x == File_rw(k, k.files[fd], is_r, r) IN
         [x EXCEPT !.ret = IF x.res = "Ok" THEN 1 ELSE NOT0]

\* fs.rs File::close: Ok for rc = 0; the last reference clunks the fid, Ok makes
\* the slot None, Err gives the reference back; otherwise rc.fetch_sub(1)
File_close_reply(k, s, r) ==
    IF k.FS[s].rc = 0 THEN [k EXCEPT !.res = "Ok"]
    ELSE IF k.FS[s].rc = 1
    THEN LET c == ops_clunk([k EXCEPT !.FS[s].rc = 0], k.FS[s].fid, r) IN
         IF c.panic THEN c
         ELSE IF c.res = "Ok" THEN [c EXCEPT !.FS[s].kind = "None"]
         ELSE [c EXCEPT !.FS[s].rc = (@ + 1) % U16]
    ELSE [k EXCEPT !.FS[s].rc = (@ + U16 - 1) % U16, !.res = "Ok"]

\* fs.rs close: !0 for an fd that is None and for Err; Ok clears the fd
fs_sys_close(k, fd, r) ==
    IF k.files[fd] = NoFile THEN [k EXCEPT !.ret = NOT0]
    ELSE LET c == File_close_reply(k, k.files[fd], r) IN
         IF c.panic THEN c
         ELSE IF c.res = "Ok" THEN [c EXCEPT !.files[fd] = NoFile, !.ret = 0]
         ELSE [c EXCEPT !.ret = NOT0]

\* fs.rs dup3: !0 when old_fd is None; old_fd when the fds are equal; otherwise
\* new_fd gets a duplicate and the file it replaced is closed with unwrap()
fs_dup3(k, old_fd, new_fd, r) ==
    IF k.files[old_fd] = NoFile THEN [k EXCEPT !.ret = NOT0]
    ELSE IF old_fd = new_fd THEN [k EXCEPT !.ret = old_fd]
    ELSE LET replaced == k.files[new_fd]
             d == [File_dup(k, k.files[old_fd]) EXCEPT !.files[new_fd] = k.files[old_fd]]
             c == IF replaced = NoFile THEN [d EXCEPT !.res = "Ok"]
                  ELSE File_close_reply(d, replaced, r)
         IN  IF c.panic THEN c
             ELSE IF c.res = "Err" THEN FsPanic(c)
             ELSE [c EXCEPT !.ret = new_fd]

\* the record between two system calls, with what the call did kept in last
NpDone(k, sys) ==
    [k EXCEPT !.msgs = <<>>, !.allocd = {}, !.clunked = {}, !.freed = {},
              !.fid = 0, !.res = "Ok", !.ret = 0,
              !.last = [sys |-> sys, ret |-> k.ret, msgs |-> k.msgs,
                        allocd |-> k.allocd, clunked |-> k.clunked,
                        freed |-> k.freed]]

kernNp == <<SL, IC, FK, VD, varsLate>>
idleNp == <<varsPm, varsCow, varsSched, varsP9, varsFs, varsVm, varsDabt, varsPoll, kernNp>>

InitNp ==
    /\ kend = Pow2(MaxOrder)
    /\ ALLOC = AllocatorInit(kend)
    /\ peak = 0
    /\ CowIdle
    /\ SchedIdle
    /\ P9Idle
    /\ MoreIdle

NpOpenat(path, r1, r2) ==
    /\ ~NP.panic
    /\ NP' = NpDone(fs_openat(NP, path, r1, r2), "openat")
    /\ UNCHANGED idleNp

NpRead(fd, r) ==
    /\ ~NP.panic
    /\ NP' = NpDone(fs_sys_rw(NP, fd, TRUE, r), "read")
    /\ UNCHANGED idleNp

NpWrite(fd, r) ==
    /\ ~NP.panic
    /\ NP' = NpDone(fs_sys_rw(NP, fd, FALSE, r), "write")
    /\ UNCHANGED idleNp

NpClose(fd, r) ==
    /\ ~NP.panic
    /\ NP' = NpDone(fs_sys_close(NP, fd, r), "close")
    /\ UNCHANGED idleNp

NpDup3(old_fd, new_fd, r) ==
    /\ ~NP.panic
    /\ NP' = NpDone(fs_dup3(NP, old_fd, new_fd, r), "dup3")
    /\ UNCHANGED idleNp

NextNp ==
    \/ \E path \in NpPaths, r1 \in ReplyKinds(TWALK), r2 \in ReplyKinds(TOPEN) :
          NpOpenat(path, r1, r2)
    \/ \E fd \in NpFds, r \in ReplyKinds(TREAD) : NpRead(fd, r)
    \/ \E fd \in NpFds, r \in ReplyKinds(TWRITE) : NpWrite(fd, r)
    \/ \E fd \in NpFds, r \in ReplyKinds(TCLUNK) : NpClose(fd, r)
    \/ \E old_fd \in NpFds, new_fd \in NpFds, r \in ReplyKinds(TCLUNK) :
          NpDup3(old_fd, new_fd, r)

SpecNp == InitNp /\ [][NextNp]_vars

\* a message of the latest system call whose reply kind is not its T-kind + 1
NpRefused(m) == m.r # m.t + 1

\* C28: every 9P call whose reply kind is not the request's T-kind + 1 returns
\* Err, and the system call that issued it returns !0 to user mode
C28_ErrReachesUser ==
    NP.last.sys # "none" =>
        \A i \in DOMAIN NP.last.msgs :
            NpRefused(NP.last.msgs[i]) =>
                /\ NP.last.msgs[i].res = "Err"
                /\ ~NP.panic
                /\ NP.last.ret = NOT0

\* what holds of the code: the 9P call returns Err, and openat, read, write and
\* close return !0
C28_ErrFromCall ==
    NP.last.sys # "none" =>
        \A i \in DOMAIN NP.last.msgs :
            NpRefused(NP.last.msgs[i]) =>
                /\ NP.last.msgs[i].res = "Err"
                /\ NP.last.sys # "dup3" => (~NP.panic /\ NP.last.ret = NOT0)

\* a refused reply reached user mode as !0 from openat after an accepted walk
C28_OpenatRefused ==
    ~(/\ NP.last.sys = "openat"
      /\ Len(NP.last.msgs) = 2
      /\ NP.last.msgs[2].r = RLERROR
      /\ NP.last.ret = NOT0)

\* C29: fid 0 stays reserved: the bit of fid 0 is set, and no system call got
\* fid 0 from alloc_fid, sent a Tclunk for fid 0 or freed fid 0
C29_FidZeroReserved ==
    /\ 0 \in NP.fid_bs
    /\ NP.last.sys # "none" =>
          /\ 0 \notin NP.last.allocd
          /\ 0 \notin NP.last.clunked
          /\ 0 \notin NP.last.freed

\* fid 0 handed out again by alloc_fid
C29_FidZeroReused == NP.last.sys # "none" => 0 \notin NP.last.allocd

\* what holds of the code: alloc_fid returns a fid that was not in use, and a
\* fid other than 0 is freed only by a clunk the server accepted
C29_FreedByClunk ==
    NP.last.sys # "none" =>
        /\ NP.last.freed \subseteq NP.last.clunked
        /\ NP.last.allocd \subseteq NP.fid_bs \cup NP.last.freed

(***************************************************************************)
(* Bring-up of the virtio-mmio devices: init_dev_common                    *)
(* (src/src/virtio.rs) and the init routines of the 9P, entropy and block  *)
(* devices (src/src/p9.rs, rng.rs, blk.rs), one register access per step.  *)
(***************************************************************************)

\* virtio.rs Status
Status_ACKNOWLEDGE == 1
Status_DRIVER == 2
Status_DRIVER_OK == 4
Status_FEATURES_OK == 8

\* x | f for a one-bit f
BitOr(x, f) == IF HasFlag(x, f) THEN x ELSE x + f

\* the values of QUEUENUMMAX of the devices in the model
QMaxes == {QSIZE \div 2, QSIZE}

\* the status flags
StatusBits == {Status_ACKNOWLEDGE, Status_DRIVER, Status_DRIVER_OK, Status_FEATURES_OK}

\* the sum of a set of flags
RECURSIVE SumBits(_)
SumBits(fs) ==
    IF fs = {} THEN 0
    ELSE LET f == CHOOSE f \in fs : TRUE IN f + SumBits(fs \ {f})

\* the device's side of a write to STATUS: 0 resets the device and its queue;
\* any other value sets the status flags (it replaces the register, or its bits
\* are added to it), without FEATURES_OK when the device does not accept the
\* driver's features
dev_write_status(r, v) ==
    LET new == IF r.ors
               THEN SumBits({f \in StatusBits : HasFlag(r.STATUS, f) \/ HasFlag(v, f)})
               ELSE v
    IN  IF v = 0
        THEN [VdRegsNew EXCEPT !.accepts = r.accepts, !.ors = r.ors, !.qmax = r.qmax]
        ELSE IF HasFlag(v, Status_FEATURES_OK) /\ ~r.accepts
        THEN [r EXCEPT !.STATUS = new - Status_FEATURES_OK]
        ELSE [r EXCEPT !.STATUS = new]

\* reg.write(Regs::STATUS, v) on the current device
write_status(k, v) ==
    [k EXCEPT !.regs[k.cur] = dev_write_status(@, v),
              !.written[k.cur] = Append(@, v),
              !.at_ok[k.cur] =
                  IF HasFlag(v, Status_DRIVER_OK)
                  THEN [ok |-> TRUE,
                        num |-> k.regs[k.cur].QUEUENUM # 0,
                        areas |-> k.regs[k.cur].desc /\ k.regs[k.cur].avail
                                  /\ k.regs[k.cur].used,
                        ready |-> k.regs[k.cur].QUEUEREADY = 1]
                  ELSE @]

\* the step after init_dev_common: the 9P device publishes its queue first, the
\* entropy and block devices write DRIVER_OK first
AfterCommon(d) == IF d = "p9" THEN "q_len" ELSE "driver_ok"

\* the step after the queue areas are published
AfterAreas(d) == IF d = "p9" THEN "driver_ok" ELSE "ready"

\* the step after DRIVER_OK
AfterOk(d) == IF d = "p9" THEN "ready" ELSE "q_len"

\* init_dev_common, one register access at a time: STATUS = 0; status = STATUS;
\* STATUS = status | ACKNOWLEDGE; STATUS = status | DRIVER (status is still the
\* value read after the reset); the feature words; status = STATUS;
\* STATUS = status | FEATURES_OK; status = STATUS, panic unless FEATURES_OK
init_dev_common(k, features) ==
    CASE k.pc = "reset" -> [write_status(k, 0) EXCEPT !.pc = "read"]
      [] k.pc = "read" -> [k EXCEPT !.status = k.regs[k.cur].STATUS, !.pc = "ack"]
      [] k.pc = "ack" ->
            [write_status(k, BitOr(k.status, Status_ACKNOWLEDGE)) EXCEPT !.pc = "driver"]
      [] k.pc = "driver" ->
            [write_status(k, BitOr(k.status, Status_DRIVER)) EXCEPT !.pc = "features"]
      [] k.pc = "features" ->
            [k EXCEPT !.regs[k.cur].DRIVERFEATURES = features,
                      !.status = k.regs[k.cur].STATUS, !.pc = "features_ok"]
      [] k.pc = "features_ok" ->
            [write_status(k, BitOr(k.status, Status_FEATURES_OK)) EXCEPT !.pc = "reread"]
      [] k.pc = "reread" ->
            IF ~HasFlag(k.regs[k.cur].STATUS, Status_FEATURES_OK)
            THEN [k EXCEPT !.status = k.regs[k.cur].STATUS, !.panic = TRUE]
            ELSE [k EXCEPT !.status = k.regs[k.cur].STATUS, !.pc = AfterCommon(k.cur)]

\* set_q_len: select the queue, assert!(len <= QUEUENUMMAX), QUEUENUM = len
set_q_len(k, qpos, len) ==
    IF len > k.regs[k.cur].qmax
    THEN [k EXCEPT !.regs[k.cur].QUEUESEL = qpos, !.panic = TRUE]
    ELSE [k EXCEPT !.regs[k.cur].QUEUESEL = qpos, !.regs[k.cur].QUEUENUM = len]

\* set_ready: select the queue, QUEUEREADY = 1
set_ready(k, qpos) ==
    [k EXCEPT !.regs[k.cur].QUEUESEL = qpos, !.regs[k.cur].QUEUEREADY = 1]

\* the init routine of a device after init_dev_common: the queue length, the
\* used, available and descriptor areas, DRIVER_OK on top of the status read
\* back (in the order of the device class, see AfterCommon), and set_ready,
\* which the first request to the device calls
dev_init(k) ==
    CASE k.pc = "q_len" -> [set_q_len(k, 0, QSIZE) EXCEPT !.pc = "used"]
      [] k.pc = "used" -> [k EXCEPT !.regs[k.cur].used = TRUE, !.pc = "avail"]
      [] k.pc = "avail" -> [k EXCEPT !.regs[k.cur].avail = TRUE, !.pc = "desc"]
      [] k.pc = "desc" ->
            [k EXCEPT !.regs[k.cur].desc = TRUE, !.pc = AfterAreas(k.cur)]
      [] k.pc = "driver_ok" ->
            [write_status([k EXCEPT !.status = k.regs[k.cur].STATUS],
                          BitOr(k.regs[k.cur].STATUS, Status_DRIVER_OK))
                EXCEPT !.status = k.regs[k.cur].STATUS, !.pc = AfterOk(k.cur)]
      [] k.pc = "ready" ->
            [set_ready(k, 0) EXCEPT !.cur = "none", !.pc = "idle",
                                    !.done = @ \cup {k.cur}]

\* the steps of init_dev_common
CommonPcs == {"reset", "read", "ack", "driver", "features", "features_ok", "reread"}

kernVd == <<SL, IC, FK, NP, varsLate>>
idleVd == <<varsPm, varsCow, varsSched, varsP9, varsFs, varsVm, varsDabt, varsPoll, kernVd>>

InitVd ==
    /\ kend = Pow2(MaxOrder)
    /\ ALLOC = AllocatorInit(kend)
    /\ peak = 0
    /\ CowIdle
    /\ SchedIdle
    /\ P9Idle
    /\ MoreIdle

\* virtio::init finds the next device, one that accepts the features or not,
\* with its QUEUENUMMAX, and calls its init routine
VdFind(d, accepts, ors, qmax) ==
    /\ ~VD.panic
    /\ VD.cur = "none"
    /\ d \notin VD.done
    /\ VD' = [VD EXCEPT !.cur = d, !.pc = "reset",
                        !.regs[d].accepts = accepts, !.regs[d].ors = ors,
                        !.regs[d].qmax = qmax]
    /\ UNCHANGED idleVd

\* the next register access of init_dev_common(reg, 0)
VdCommon ==
    /\ ~VD.panic
    /\ VD.cur # "none"
    /\ VD.pc \in CommonPcs
    /\ VD' = init_dev_common(VD, 0)
    /\ UNCHANGED idleVd

\* the next register access of the device's init routine
VdInit ==
    /\ ~VD.panic
    /\ VD.cur # "none"
    /\ VD.pc \notin CommonPcs
    /\ VD' = dev_init(VD)
    /\ UNCHANGED idleVd

NextVd ==
    \/ \E d \in Devs, accepts \in BOOLEAN, ors \in BOOLEAN, qmax \in QMaxes :
          VdFind(d, accepts, ors, qmax)
    \/ VdCommon
    \/ VdInit

SpecVd == InitVd /\ [][NextVd]_vars

\* the STATUS writes of a bring-up in the order the claim gives
BringUpOrder ==
    <<0,
      Status_ACKNOWLEDGE + Status_DRIVER,
      Status_ACKNOWLEDGE + Status_DRIVER + Status_FEATURES_OK,
      Status_ACKNOWLEDGE + Status_DRIVER + Status_FEATURES_OK + Status_DRIVER_OK>>

\* the bits of x are bits of y
BitsKept(x, y) == \A f \in StatusBits : HasFlag(x, f) => HasFlag(y, f)

\* C30: the values written to STATUS are, in order, 0, ACKNOWLEDGE | DRIVER,
\* then with FEATURES_OK, then with DRIVER_OK; every write after the reset keeps
\* the bits of the one before; FEATURES_OK was read back before the driver goes
\* on; DRIVER_OK is written only when queue 0's length and areas are published
\* and the queue is ready
C30_BringUpOrder ==
    \A d \in Devs :
        /\ Len(VD.written[d]) <= Len(BringUpOrder)
        /\ \A i \in DOMAIN VD.written[d] : VD.written[d][i] = BringUpOrder[i]
        /\ \A i \in DOMAIN VD.written[d] :
              i > 2 => BitsKept(VD.written[d][i - 1], VD.written[d][i])
        /\ VD.at_ok[d].ok =>
              (VD.at_ok[d].num /\ VD.at_ok[d].areas /\ VD.at_ok[d].ready)

\* the STATUS writes of the code: ACKNOWLEDGE, then DRIVER alone, then the
\* status read back with FEATURES_OK and with DRIVER_OK
WritesOfCode(kept) ==
    <<0, Status_ACKNOWLEDGE, Status_DRIVER,
      kept + Status_DRIVER + Status_FEATURES_OK,
      kept + Status_DRIVER + Status_FEATURES_OK + Status_DRIVER_OK>>

\* what holds of the code: reset first, FEATURES_OK written after DRIVER and read
\* back before any queue register or DRIVER_OK is written, DRIVER_OK last; the
\* 9P device has its queue length and areas published when DRIVER_OK is written
C30_OrderOfCode ==
    \A d \in Devs :
        /\ Len(VD.written[d]) <= 5
        /\ \A i \in DOMAIN VD.written[d] :
              VD.written[d][i] =
                  WritesOfCode(IF VD.regs[d].ors THEN Status_ACKNOWLEDGE ELSE 0)[i]
        /\ (VD.cur = d /\ VD.pc \notin CommonPcs) =>
              HasFlag(VD.regs[d].STATUS, Status_FEATURES_OK)
        /\ (VD.at_ok[d].ok /\ d = "p9") => (VD.at_ok[d].num /\ VD.at_ok[d].areas)
        /\ VD.at_ok[d].ok => ~VD.at_ok[d].ready

\* the 9P device is up: DRIVER_OK is set, ACKNOWLEDGE is not
C30_Up ==
    ~(/\ "p9" \in VD.done
      /\ HasFlag(VD.regs["p9"].STATUS, Status_DRIVER_OK)
      /\ ~HasFlag(VD.regs["p9"].STATUS, Status_ACKNOWLEDGE))

\* a device refused FEATURES_OK and the driver panicked
C30_Refused == ~VD.panic
----------------------------------------------------------------------------
(* The frames of a task that terminates (sched.rs free_task, vm.rs free_pt) *)

\* the head of the block frame f belongs to: a Mid frame stores its distance
HeadOf(a, f) == IF a.pages[f].flags = "Mid" THEN f - a.pages[f].ref_cnt ELSE f

\* the frames the leaves of region r of task record tk point at
RegionFrames(tk, r) ==
    {tk.pt[v].p : v \in {w \in VAddrs : w[1] = r}} \ {NoFrame}

\* the page-table frames of task record tk: the L0 root and the tables below it
TableFrames(tk) ==
    ({tk.tables[k] : k \in TableKeys} \cup {tk.user_pt}) \ {NoFrame}

\* every frame task record tk reaches through its root table
TaskFrames(tk) == TableFrames(tk) \cup UNION {RegionFrames(tk, r) : r \in Regions}

\* frame f is idle and inside a block that is on a free list
OnFreeList(a, f) ==
    /\ a.pages[f].ref_cnt = 0
    /\ a.pages[f].flags = "None"
    /\ Covering(Listed(a), f) # {}

\* the frames that only task t itself can have allocated: its page tables, its
\* user stack and, when its parent is alive and has no brk or mmap page (so
\* that fork handed down none), the frames of its brk and mmap regions
AllocatedInLifetime(tasks, t) ==
    TableFrames(tasks[t]) \cup RegionFrames(tasks[t], "spel0")
    \cup (IF /\ tasks[t].parent # NoTask
             /\ tasks[tasks[t].parent].state = "Ready"
             /\ tasks[tasks[t].parent].brk_len + tasks[tasks[t].parent].mmap_len = 0
          THEN RegionFrames(tasks[t], "brk") \cup RegionFrames(tasks[t], "mmap")
          ELSE {})

\* the latest step is an exit that went through
Exited == last.op = "exit" /\ ~panicked

----------------------------------------------------------------------------
(* Region::alloc, brk and mmap (src/src/sched.rs) against the frames of RAM  *)
(* (src/src/pm.rs). Sizes and addresses are in pages of 4096 bytes.          *)

\* 10 * MB / 4096: the largest request brk and mmap serve
REQ_MAX == 2560

\* MAP_ANONYMOUS, the flag mmap insists on
MAP_ANONYMOUS == 32

\* entries of a translation table
PT_ENTRIES == 512

\* size of static PAGES, [Page; GB / 4096] with 40-byte Pages, in frames
PAGES_LEN == 2560

\* the frames that are not on the free lists when the task first runs: the
\* kernel image, which holds PAGES, the root table, stacks, tables and program
\* of the task; a small and a larger image
RgKernels == {PAGES_LEN + 12, PAGES_LEN + 512}

\* the request sizes user code passes: nothing, 10 MiB, one page more
RgIncrs == {0, REQ_MAX, REQ_MAX + 1}

CeilDiv(n, d) == (n + d - 1) \div d

\* Region::end
Region_end(r) == r.len + r.vaddr

\* Region::alloc: None when len + sz > vaddr + REGION_MAX_SZ, otherwise the
\* region grows by sz and its old end is returned
Region_alloc(r, sz) ==
    IF r.len + sz > r.vaddr + REGION_MAX_SZ
    THEN [some |-> FALSE, res |-> 0, r |-> r]
    ELSE [some |-> TRUE, res |-> r.vaddr + r.len, r |-> [r EXCEPT !.len = @ + sz]]

\* the L3 and L2 tables map() allocates for the first len pages of a region
\* that starts at a multiple of 1 GiB
RgTables(len) == CeilDiv(len, PT_ENTRIES) + CeilDiv(len, PT_ENTRIES * PT_ENTRIES)

\* the pages of the task's mmap and brk regions that carry a leaf: everything
\* below the region's end before the call
RgMapped(k, v) ==
    \/ (v >= k.mmap.vaddr /\ v < Region_end(k.mmap))
    \/ (v >= k.brk.vaddr /\ v < Region_end(k.brk))

\* the loop of brk and mmap with the frames left out: the leaves are written
\* and no frame is taken from the allocator
rg_map_pages_lazy(k, old, v, n) ==
    IF \E i \in {0, n - 1} : n > 0 /\ RgMapped(k, v + i)
    THEN [k EXCEPT !.panic = TRUE]
    ELSE k

\* the loop of brk and mmap over the n pages from v on, old being the length of
\* the region before Region::alloc: pm::alloc(4096).unwrap() for every page
\* (and inside map for every new table) panics once no frame is left; map on a
\* page that has a leaf returns Err, which is todo!()
rg_map_pages(k, old, v, n) ==
    LET need == n + RgTables(old + n) - RgTables(old) IN
    IF \E i \in {0, n - 1} : n > 0 /\ RgMapped(k, v + i)
    THEN [k EXCEPT !.panic = TRUE]
    ELSE IF need > k.free
    THEN [k EXCEPT !.free = 0, !.panic = TRUE]
    ELSE [k EXCEPT !.free = @ - need]

\* sched.rs brk with regs[0] = x0 (a multiple of 4096, so that align_f keeps it)
rg_brk(k, x0) ==
    LET pos == Region_end(k.brk)
        new_pos == x0
        incr == new_pos - pos
        a == Region_alloc(k.brk, incr)
    IN  IF new_pos = 0 \/ new_pos < pos \/ new_pos = pos THEN [k EXCEPT !.ret = pos]
        ELSE IF incr > REQ_MAX THEN [k EXCEPT !.ret = pos]
        ELSE IF ~a.some THEN [k EXCEPT !.panic = TRUE]
        ELSE [rg_map_pages(k, k.brk.len, a.res, incr)
                 EXCEPT !.brk = a.r, !.ret = new_pos]

\* sched.rs mmap with regs[1] = len pages, regs[2] = 3 and regs[3] = flags
rg_mmap(k, len, flags) ==
    LET a == Region_alloc(k.mmap, len) IN
    IF ~HasFlag(flags, MAP_ANONYMOUS) THEN [k EXCEPT !.ret = NOT0]
    ELSE IF len > REQ_MAX THEN [k EXCEPT !.ret = NOT0]
    ELSE IF ~a.some THEN [k EXCEPT !.panic = TRUE]
    ELSE [rg_map_pages(k, k.mmap.len, a.res, len)
             EXCEPT !.mmap = a.r, !.ret = a.res]

kernRg == <<SL, IC, FK, NP, VD, VQ>>
idleRg == <<varsPm, varsCow, varsSched, varsP9, varsFs, varsVm, varsDabt, varsPoll, kernRg>>

InitRg ==
    /\ kend = Pow2(MaxOrder)
    /\ ALLOC = AllocatorInit(kend)
    /\ peak = 0
    /\ CowIdle
    /\ SchedIdle
    /\ P9Idle
    /\ MoreIdle

\* pm::init and the first task: what is left of the 1 GiB of RAM
RgBoot(kpages) ==
    /\ ~RG.up
    /\ RG' = [RG EXCEPT !.up = TRUE, !.free = GB_PAGES - kpages,
                        !.last = [op |-> "boot"]]
    /\ UNCHANGED idleRg

\* svc 214
RgBrk(x0) ==
    /\ RG.up /\ ~RG.panic
    /\ x0 >= 0
    /\ LET k == rg_brk(RG, x0)
       IN  RG' = [k EXCEPT !.ret = 0,
                           !.last = [op |-> "brk", grew |-> k.brk.len - RG.brk.len,
                                     moved |-> k.ret = x0]]
    /\ UNCHANGED idleRg

\* svc 222
RgMmap(len, flags) ==
    /\ RG.up /\ ~RG.panic
    /\ LET k == rg_mmap(RG, len, flags)
       IN  RG' = [k EXCEPT !.ret = 0,
                           !.last = [op |-> "mmap", grew |-> k.mmap.len - RG.mmap.len,
                                     moved |-> k.ret # NOT0]]
    /\ UNCHANGED idleRg

NextRg ==
    \/ \E kpages \in RgKernels : RgBoot(kpages)
    \/ \E x0 \in {0, Region_end(RG.brk) - 1} \cup {Region_end(RG.brk) + i : i \in RgIncrs} :
          RgBrk(x0)
    \/ \E len \in RgIncrs, flags \in {MAP_ANONYMOUS + 2, 2} : RgMmap(len, flags)

SpecRg == InitRg /\ [][NextRg]_vars

\* C32: after every Region::alloc, brk and mmap call the mmap and the brk
\* region have len <= cap: neither reaches the virtual range of the region
\* above it, whether the call returned or the kernel panicked in it
C32_LenWithinCap ==
    /\ RG.mmap.len <= RG.mmap.cap
    /\ RG.brk.len <= RG.brk.cap
    /\ Region_end(RG.mmap) <= RG.brk.vaddr
    /\ Region_end(RG.brk) <= SPEL0_VADDR

\* C32 witness: a call that grew a region found no frame left and panicked
C32_Witness ==
    /\ RG.panic
    /\ RG.last.op \in {"brk", "mmap"}
    /\ RG.last.grew > 0
    /\ RG.free = 0
    /\ RG.mmap.len > 0
    /\ RG.brk.len > 0

\* Region::alloc never returns None: what ends the growth is pm::alloc
C32_AllocNeverRefuses ==
    /\ Region_alloc(RG.mmap, REQ_MAX).some
    /\ Region_alloc(RG.brk, REQ_MAX).some

\* a region that holds nearly all the free frames
C32_NearlyFull == ~(RG.brk.len > GB_PAGES - PAGES_LEN - 2 * REQ_MAX)

----------------------------------------------------------------------------
(* cons.rs read_line on an empty buffer: Wq::sleep (src/src/sched.rs)        *)

\* Wq::sleep after self.add(task): task.lock.acquire(), lock.release() (BUF),
\* state = Sleeping, chan = None, sched()
Wq_sleep(k, t) ==
    sched([k EXCEPT !.lock[t] = TRUE, !.state[t] = "Sleeping", !.chan[t] = NoChan],
          t, "wq_sleep_back")

\* read_line from BUF.acquire() on, ICANON off: a character is popped and the
\* call returns; with an empty buffer Wq::sleep is entered and registers the
\* task in the console's queue
read_line_loop(k, t) ==
    IF readable(k) THEN Return(read_line(k), t)
    ELSE [Wq_add(k, "BUF", t) EXCEPT !.pc[t] = "wq_added", !.cpu.mode = "kernel"]

\* Wq::sleep after sched() returned: forget(lock.acquire()), drop(task_lock);
\* read_line goes round its loop
Wq_sleep_back(k, t) == read_line_loop([k EXCEPT !.lock[t] = FALSE], t)

\* a read of the console that finds the buffer empty
SlRead ==
    /\ SlUser
    /\ ~readable(SL)
    /\ Wq_count(SL.wq["BUF"]) < MaxReg
    /\ SL' = Logged(read_line_loop(SL, SlCur), "read", SlCur)
    /\ UNCHANGED <<idleSlp, kernSl>>

SlWqSleep ==
    /\ SlAt("wq_added")
    /\ ~SL.lock[SlCur]
    /\ SL' = Logged(Wq_sleep(SL, SlCur), "wq_sleep", SlCur)
    /\ UNCHANGED <<idleSlp, kernSl>>

SlWqSleepBack ==
    /\ SlAt("wq_sleep_back")
    /\ readable(SL) \/ Wq_count(SL.wq["BUF"]) < MaxReg
    /\ SL' = Logged(Wq_sleep_back(SL, SlCur), "wq_sleep_back", SlCur)
    /\ UNCHANGED <<idleSlp, kernSl>>

NextWq ==
    \/ NextSlp
    \/ SlRead
    \/ SlWqSleep
    \/ SlWqSleepBack

SpecWq == InitSlp /\ [][NextWq]_vars

\* C33: a task inside Wq::sleep is registered in the console's queue from add
\* until a wake_all has run: it is registered and Running between add and the
\* transition to Sleeping, registered while it is Sleeping, and after every
\* wake_all of the console's queue no task is Sleeping in Wq::sleep
C33_WokenByFirstWakeAll ==
    /\ \A t \in SlTasks :
          /\ SL.pc[t] = "wq_added" =>
                (t \in Registered(SL.wq["BUF"]) /\ SL.state[t] = "Running" /\ SlCur = t)
          /\ (SL.pc[t] = "wq_sleep_back" /\ SL.state[t] = "Sleeping") =>
                t \in Registered(SL.wq["BUF"])
    /\ (SL.last.op = "wake_all" /\ SL.last.q = "BUF") =>
          \A t \in SlTasks : SL.pc[t] = "wq_sleep_back" => SL.state[t] # "Sleeping"

\* C33 witness: push_char found both tasks Sleeping in Wq::sleep and woke them
C33_Witness ==
    /\ SL.last.op = "wake_all"
    /\ SL.last.q = "BUF"
    /\ \A t \in SlTasks :
          /\ SL.pc[t] = "wq_sleep_back"
          /\ SL.last.state[t] = "Sleeping"
          /\ SL.state[t] = "Ready"

\* a task in Wq::sleep is woken by the timer's wake_all and sleeps again
C33_Rearmed == \A t \in SlTasks : SL.wq["BUF"].tasks[t] < 2

----------------------------------------------------------------------------
(* wait and exit under the timer: the parent gets its child (sched.rs)       *)

\* the kernel runs on: every statement of a handler is followed by the next,
\* and the timer interrupt preempts a task that stays in user mode
FairSched == WF_vars(NextSched) /\ SF_vars(Yild)

SpecSchedFair == SpecSched /\ FairSched

\* the positions of the CPU inside wait()
WaitPcs == {"wait_scan", "sleep_locked", "sleep_released", "sleep_state",
            "sleep_chan", "sleep_woken", "sleep_cleared"}

\* task p has called wait and wait has not returned: it executes wait, or it
\* was switched out by the sleep of wait
InWait(p) ==
    \/ Cur = p /\ cpu.pc \in WaitPcs
    \/ ctx[p] = "sleep_woken" /\ TASKS[p].state \in {"Sleeping", "Ready"}
         /\ (Cur # p \/ cpu.pc = "scheduler_back")

\* a child of p has exited and is not reaped
HasZombie(p) == \E c \in Children(p) : TASKS[c].state = "Zombie"

\* free_task publishes Zombie and wakes the parent with WAIT held, and wait
\* scans with WAIT held
ZombieUnderWait ==
    \A c \in Tasks :
        (TASKS[c].state # "Zombie" /\ TASKS'[c].state = "Zombie") => (WAIT /\ Cur = c)

\* a wait that returns while the caller has children has reaped exactly one
\* Zombie child, whose slot is Free and without parent afterwards; no other
\* step makes a slot Free
ReapsOnce ==
    /\ \A p \in Tasks :
          (InWait(p) /\ ~InWait(p)' /\ Children(p) # {}) =>
              \E c \in Children(p) :
                  /\ TASKS[c].state = "Zombie"
                  /\ TASKS'[c].state = "Free"
                  /\ TASKS'[c].parent = NoTask
                  /\ \A d \in Tasks \ {c} : TASKS'[d] = TASKS[d]
    /\ \A c \in Tasks :
          (TASKS[c].state # "Free" /\ TASKS'[c].state = "Free") =>
              /\ TASKS[c].state = "Zombie"
              /\ InWait(TASKS[c].parent)
              /\ Cur = TASKS[c].parent
              /\ WAIT

----------------------------------------------------------------------------
(* The descriptors of the 9P queue under more tasks than chains (virtio.rs,  *)
(* p9.rs): every 9P operation allocates two descriptors with                 *)
(* alloc_desc().unwrap(), links them, publishes the head and sleeps          *)

\* Number of requests issued in one run of the descriptor model.
MaxVqReqs == 5

\* the descriptors of the chains published and not yet popped from the used ring
VqOutstanding(k) == UNION {k.reqs[r].descs : r \in InFlight(k.reqs)}

\* rw of task t stopped in alloc_desc().unwrap(); handed: the descriptors
\* alloc_desc returned to this call
vq_unwrap_none(k, t, q, handed) ==
    [k EXCEPT !.q = q, !.panic = TRUE,
              !.last = [op |-> "rw", t |-> t, handed |-> handed,
                        out |-> VqOutstanding(k),
                        free |-> Cardinality(Descs \ k.q.desc_bs)]]

\* rw of task t with descriptors d1 and d2: chain, channel, add_avail, sleep;
\* stale: the descriptors that carried F_NEXT when alloc_desc returned them
vq_rw_sleep(k, t, d1, d2) ==
    [k EXCEPT !.q = rw_submit(k.q, ChanOf(t)),
              !.state[t] = "Sleeping",
              !.reqs = Append(@, [t      |-> t,
                                  head   |-> d1,
                                  descs  |-> {d1, d2},
                                  stale  |-> {d \in {d1, d2} : "F_NEXT" \in k.q.desc[d].flags},
                                  done   |-> FALSE,
                                  upos   |-> NoDesc,
                                  popped |-> 0]),
              !.last = [op |-> "rw", t |-> t, handed |-> {d1, d2},
                        out |-> VqOutstanding(k),
                        free |-> Cardinality(Descs \ k.q.desc_bs)]]

\* rw after the first alloc_desc().unwrap() returned d1
vq_rw_second(k, t, d1) ==
    IF first_clr(alloc_desc(k.q).desc_bs) = NoDesc
    THEN vq_unwrap_none(k, t, alloc_desc(k.q), {d1})
    ELSE vq_rw_sleep(k, t, d1, first_clr(alloc_desc(k.q).desc_bs))

\* p9.rs rw of task t, from the first alloc_desc to sleep
vq_rw(k, t) ==
    IF first_clr(k.q.desc_bs) = NoDesc THEN vq_unwrap_none(k, t, k.q, {})
    ELSE vq_rw_second(k, t, first_clr(k.q.desc_bs))

\* what one pop_used cleared, next to the chain its used-ring entry names
VqPop(k, r) ==
    [head    |-> k.q.used.ring[k.q.used_pos % QSIZE],
     cleared |-> k.q.desc_bs \ pop_used(k.q).desc_bs,
     chain   |-> k.reqs[r].descs,
     stale   |-> k.reqs[r].stale,
     others  |-> UNION {k.reqs[s].descs : s \in InFlight(k.reqs) \ {r}}]

\* a request whose used-ring entry was popped: the chain it had is what is kept
VqConsumed(r) ==
    [r EXCEPT !.popped = @ + 1, !.t = NoTask, !.upos = NoDesc, !.stale = {}]

\* irq_handle, one turn of the loop: peek_used, wakeup(data) unless 0, pop_used;
\* a task woken from the sleep of rw is back in user mode when it runs next
vq_drain_one(k) ==
    [k EXCEPT !.q = pop_used(k.q),
              !.state = [t \in VqTasks |->
                            IF /\ k.state[t] = "Sleeping"
                               /\ peek_used(k.q) # 0
                               /\ peek_used(k.q) = ChanOf(t)
                            THEN "user" ELSE k.state[t]],
              !.reqs = [r \in DOMAIN k.reqs |->
                            IF r \in ReqsAt(k.reqs, k.q.used_pos)
                            THEN VqConsumed(k.reqs[r]) ELSE k.reqs[r]],
              !.pops = @ \cup {VqPop(k, r) : r \in ReqsAt(k.reqs, k.q.used_pos)}]

\* irq_handle: the loop over the used ring
RECURSIVE vq_irq_handle(_)
vq_irq_handle(k) ==
    IF ~has_used(k.q) \/ k.q.panic THEN k ELSE vq_irq_handle(vq_drain_one(k))

kernVq == <<SL, IC, FK, NP, VD, RG>>
idleVq == <<varsPm, varsCow, varsSched, varsP9, varsFs, varsVm, varsDabt, varsPoll, kernVq>>

InitVq ==
    /\ kend = Pow2(MaxOrder)
    /\ ALLOC = AllocatorInit(kend)
    /\ peak = 0
    /\ CowIdle
    /\ SchedIdle
    /\ P9Idle
    /\ MoreIdle

\* p9::init: set_version and attach, each a chain of two descriptors popped
\* before the next; afterwards the tasks run
VqInit ==
    /\ ~VQ.up
    /\ VQ' = [VQ EXCEPT !.q = attach(set_version(VQ.q)), !.up = TRUE,
                        !.last = [op |-> "init"]]
    /\ UNCHANGED idleVq

\* task t calls read or write on a 9P file
VqRw(t) ==
    /\ VQ.up /\ ~VQ.panic
    /\ VQ.state[t] = "user"
    /\ t <= VQ.started
    /\ Len(VQ.reqs) < MaxVqReqs
    /\ VQ' = [vq_rw(VQ, t) EXCEPT !.started = IF t = @ THEN @ + 1 ELSE @]
    /\ UNCHANGED idleVq

\* the device answers request r: one more used-ring entry
VqDevice(r) ==
    /\ ~VQ.panic
    /\ r \in DOMAIN VQ.reqs
    /\ ~VQ.reqs[r].done
    /\ VQ' = [VQ EXCEPT !.q = device_use(VQ.q, VQ.reqs[r].head),
                        !.reqs[r].done = TRUE,
                        !.reqs[r].upos = VQ.q.used.idx,
                        !.last = [op |-> "device", r |-> r]]
    /\ UNCHANGED idleVq

\* the device interrupt
VqIrq ==
    /\ ~VQ.panic
    /\ has_used(VQ.q)
    /\ VQ' = [vq_irq_handle([VQ EXCEPT !.pops = {}]) EXCEPT !.last = [op |-> "irq"]]
    /\ UNCHANGED idleVq

NextVq ==
    \/ VqInit
    \/ \E t \in VqTasks : VqRw(t)
    \/ \E r \in 1 .. MaxVqReqs : VqDevice(r)
    \/ VqIrq

SpecVq == InitVq /\ [][NextVq]_vars

\* C35: the allocation bitset is the set of descriptors of the chains placed in
\* the available ring and not yet popped from the used ring, and the
\* descriptors alloc_desc hands to a request belong to none of those chains;
\* a request that gets descriptors gets two distinct ones
C35_BitIsAllocation ==
    /\ VQ.q.desc_bs = VqOutstanding(VQ)
    /\ VQ.last.op = "rw" =>
          /\ VQ.last.handed \cap VQ.last.out = {}
          /\ ~VQ.panic => Cardinality(VQ.last.handed) = 2

\* C35 witness: a request was handed the descriptors of a chain consumed
\* earlier while other chains are in flight
C35_Witness ==
    /\ VQ.last.op = "rw"
    /\ ~VQ.panic
    /\ VQ.last.out # {}
    /\ \E r \in DOMAIN VQ.reqs :
          VQ.reqs[r].popped = 1 /\ VQ.reqs[r].descs = VQ.last.handed

\* C36: every pop_used clears exactly the descriptors linked into the chain its
\* used-ring entry names, none of a chain still in flight, no descriptor twice,
\* and the assert of free_desc holds
C36_FreesOwnChain ==
    /\ \A e \in VQ.pops : e.cleared = e.chain /\ e.cleared \cap e.others = {}
    /\ \A d \in Descs : VQ.q.cleared[d] <= 1
    /\ ~VQ.q.panic

\* C36 witness: a chain whose head carried F_NEXT from an earlier chain was
\* freed while another request was in flight
C36_Witness ==
    \E e \in VQ.pops : e.stale # {} /\ e.others # {}

\* C38: no 9P request panics the kernel
C38_NeverPanics == ~VQ.panic

----------------------------------------------------------------------------
(* The capacity of a wait queue: ppoll with a timeout while the console has  *)
(* no input for a third of a second (fs.rs check_events, sched.rs Wq::add)   *)

\* Number of timer ticks in one run of the long ppoll model.
MaxLongTicks == 26

\* the timer interrupt, over the longer run
HandleTikLong ==
    /\ ~PO.panic
    /\ PO.pc # "done"
    /\ TICK.ticks < MaxLongTicks
    /\ PollInstall(handle_tik(PollM))

NextPollLong ==
    \/ \E ts \in PollTimeouts : Ppoll(ts)
    \/ PollRun
    \/ PollReturn
    \/ HandleTikLong

SpecPollLong == InitPoll /\ [][NextPollLong]_vars

\* C37: every registration finds room in the queue: the counts of the
\* console's and the timer's queue stay within the NTASKS entries of
\* Wq::tasks and no Wq::add indexes past the array
C37_CountWithinCapacity ==
    /\ PO.cons_count <= WQ_LEN
    /\ TICK.count <= WQ_LEN
    /\ ~PO.panic

----------------------------------------------------------------------------
(* The fid of a walk or open that fails (p9.rs ops::walk, ops::open, open)   *)

\* C39: an openat that returns !0 because walk or open returned Err leaves no
\* fid it allocated in the bitset, and no openat ends in the panic of
\* alloc_fid().unwrap() on an exhausted bitset
C39_ErrFreesFid ==
    NP.last.sys = "openat" =>
        /\ ~NP.panic
        /\ NP.last.ret = NOT0 => NP.last.allocd \cap NP.fid_bs = {}

----------------------------------------------------------------------------
(* The interior frames of a block (pm.rs Page::mark_mids, unmark_mids)       *)

\* the frames after the head of the block of order ord at f
Interior(f, ord) == (f + 1) .. (f + PageLen(ord) - 1)

\* every Used or Cow head is followed by the Mid frames of its block, each
\* with its distance from the head
HeadsHaveMids(a) ==
    \A f \in Frames :
        a.pages[f].flags \in {"Used", "Cow"} =>
            \A i \in Interior(f, a.pages[f].ord) :
                /\ i \in Frames
                /\ a.pages[i].flags = "Mid"
                /\ a.pages[i].ref_cnt = i - f

\* every Mid frame lies in the block of a Used or Cow head: no frame of a block
\* that was freed (or was never allocated) is flagged Mid
MidsHaveHeads(a) ==
    \A f \in Frames :
        a.pages[f].flags = "Mid" =>
            /\ HeadOf(a, f) \in Frames
            /\ a.pages[HeadOf(a, f)].flags \in {"Used", "Cow"}
            /\ f \in Interior(HeadOf(a, f), a.pages[HeadOf(a, f)].ord)

\* C40: every Used or Cow head frame of a block of n frames is followed by
\* n - 1 frames flagged Mid whose ref_cnt is their distance from the head, and
\* a frame flagged Mid always belongs to such a block, so a freed block has none
C40_MidsFollowHeads == HeadsHaveMids(ALLOC) /\ MidsHaveHeads(ALLOC)

\* C40 witness: a shared block of several frames with its Mid frames, next to a
\* block of several frames that is back on a free list, after a block was freed
C40_Witness ==
    /\ \E f \in Frames :
          /\ ALLOC.pages[f].flags = "Cow"
          /\ Interior(f, ALLOC.pages[f].ord) # {}
    /\ \E e \in Listed(ALLOC) :
          /\ e[1] >= kend
          /\ Interior(e[1], e[2]) # {}
          /\ \A i \in Interior(e[1], e[2]) : ALLOC.pages[i].flags = "None"
    /\ peak >= 2
    /\ Cardinality(LiveHeads(ALLOC)) < peak

=============================================================================
